SPECIFICATION AsmSpec
CONSTANTS
  SNAKE_GRID_W = 6
  SNAKE_GRID_H = 5
  SNAKE_MAX_LEN = 7
  SNAKE_FOOD_TRIES = 12
  SnakeScores = 12
  PONG_W = 24
  PONG_H = 22
  PONG_PAD_W = 2
  PONG_PAD_H = 6
  PONG_PAD_X_L = 3
  PONG_BALL_SZ = 2
  PONG_SPEED = 2
  PONG_TOP = 3
  PONG_BOT = 20
  PONG_KEY_STEP = 4
  PONG_AI_STEP = 2
  PongScores = 2
  TETRIS_W = 4
  TETRIS_H = 4
  TETRIS_DROP_MAX = 2
  TetrisLines = 2
  SI_W = 17
  SI_H = 22
  SI_ALIEN_COLS = 2
  SI_ALIEN_ROWS = 2
  SI_ALIEN_W = 3
  SI_ALIEN_H = 2
  SI_ALIEN_OX = 3
  SI_ALIEN_OY = 1
  SI_ALIEN_SPD = 2
  SI_ALIEN_TICKS = 2
  SI_ALIEN_DROP = 4
  SI_PLAYER_W = 4
  SI_PLAYER_H = 3
  SI_PLAYER_STEP = 5
  SI_MARGIN = 2
  SI_BULLET_W = 1
  SI_BULLET_H = 2
  SI_BULLET_SPD = 4
  RACE_W = 320
  RACE_H = 200
  RACE_LANES = 3
  RACE_CAR_W = 24
  RACE_CAR_H = 35
  RACE_OBST_W = 30
  RACE_OBST_H = 25
  RACE_SCROLL = 3
  RACE_OBST_MAX = 4
  RACE_SPAWN_TICKS = 20
  RaceScores = 2
  GameCount = 3
  GAME_HISTORY_MAX_ENTRIES = 3
  MaxSessions = 4
  MaxTicks = 7
  VIDEO_WIDTH = 320
  VIDEO_HEIGHT = 200
  WORD = 65536
  DemoFrames = 2000
  LineSide = 4
  VGA_W = 2
  VGA_H = 2
  LINE_MAX = 4
  MaxText = 5
  RX_SLOTS = 3
  Datagram = {"P", "pad", "text"}
  NoDatagram = NoDatagram
  PING_TRIES = 2
  STREAMING_QUEUE_DEPTH = 2
  STREAMING_CHUNK_SIZE = 2
  Lengths = {0, 2, 5}
  FRAME_W = 5
  FRAME_H = 2
  FRAME_CHUNK_PAYLOAD = 3
  MaxFrames = 3
  ProfileNames <- MCProfileNames
  NAME_FIELD = 1
  TABLE_SLOTS = 3
  SETTING_MAX = 2
  Names <- MCNames
  Slot0 <- SLOT0
  Slot1 <- SLOT1
  BackupImage <- MCBackup
  SnapshotImage <- MCSnapshot
  Blocks = {"image", "snap"}
  RootSectors = 3
  PerSector = 1
  DataSectors = 2
  KernelLen = 1
  MaxLen = 1
  CloneCap = 1
  Lines <- MCLines
  Numeral <- MCNumeral
  COHERENCE_START = 12
  COHERENCE_MAX = 14
  APP_BUDGET = 2
INVARIANTS
  SnakeWhole
  PongInPlay
  TetrisSound
  InvadersHeld
  RaceFair
  HistoryAgrees
  GraphicsSound
  ConsoleShows
  
  ShellSound
  BackupRestorable
PROPERTIES
  TablesKeep
  NetSound
  WaitsEnd
