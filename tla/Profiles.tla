-------------------------------- MODULE Profiles --------------------------------
(***************************************************************************)
(* The fixed tables of bluetooth.c, controller_remap.c and pause_engine.c: *)
(* profiles of either kind, paired devices, the compatibility entries.     *)
(* Each grows at its end while there is room, cuts names to the field they *)
(* are stored in, and is searched from the front for the full name.  No    *)
(* table reads another one, so a behaviour is about one of them.  A name   *)
(* is a sequence of parts, of which a field holds NAME_FIELD; a setting is *)
(* a number that stands for a map, a controller's settings or an entry.    *)
(***************************************************************************)
EXTENDS Integers, FiniteSets, SequencesExt

CONSTANTS
  ProfileNames,   \* names a user gives
  NAME_FIELD,     \* parts of a name a table keeps
  TABLE_SLOTS,    \* BT_DEVICE_MAX, BT_PROFILE_SLOTS, CTRL_MAX_PROFILES, PAUSE_COMPAT_MAX
  SETTING_MAX     \* 255

ASSUME ProfilesAssumption ==
  /\ \A n \in ProfileNames : n \in Seq(Nat)
  /\ {NAME_FIELD, TABLE_SLOTS, SETTING_MAX} \subseteq Nat \ {0}

VARIABLE pads   \* the table, the settings in force, and ghosts of what was entered

Kinds == {"bt profile", "bt device", "controller profile", "compat"}
DefaultSetting == 1     \* the identity map; sensitivity 128 and deadzone 32
OfBluetooth == pads.kind \in {"bt profile", "bt device"}

(* copy_name, str_copy, and the copying loops of bt_pair and the profiles. *)
copy_name(name) == SubSeq(name, 1, IF Len(name) > NAME_FIELD THEN NAME_FIELD ELSE Len(name))

Stored == {copy_name(n) : n \in ProfileNames}

BadFirstRow(table, name) ==    \* searched from the back
  SelectLastInSeq(table, LAMBDA r : r.name = name)

(* The index of the first entry with this name, 0 if there is none.        *)
FirstRow(table, name) == SelectInSeq(table, LAMBDA r : r.name = name)

(* controller_remap_init, and bluetooth.c before bt_init.                  *)
PadsStart(k) ==
  [kind |-> k, on |-> k \notin {"bt profile", "bt device"}, table |-> <<>>,
   force |-> DefaultSetting, first |-> <<>>, pairings |-> [a \in Stored |-> 0]]
PadsInit == \E k \in Kinds : pads = PadsStart(k)

(* Every bt and ctrlprofile command starts with bt_init, which returns at  *)
(* once the second time.                                                   *)
bt_init ==
  /\ OfBluetooth
  /\ pads' = IF pads.on THEN pads
             ELSE [pads EXCEPT !.on = TRUE, !.table = <<>>, !.force = DefaultSetting]

Clamped(value) == IF value < 0 THEN 0 ELSE IF value > SETTING_MAX THEN SETTING_MAX ELSE value

(* controller_set_sensitivity, controller_set_deadzone                     *)
controller_set(value) ==
  /\ pads.kind = "controller profile"
  /\ pads' = [pads EXCEPT !.force = Clamped(value)]

(* The mask is cut to its bits.                                            *)
controller_set_turbo(mask) ==
  /\ pads.kind = "controller profile"
  /\ pads' = [pads EXCEPT !.force = mask % (SETTING_MAX + 1)]

controller_map_set(physical) ==
  /\ pads.kind = "bt profile" /\ pads.on
  /\ pads' = [pads EXCEPT !.force = physical]

Entered(name, setting) ==
  LET stored == copy_name(name) IN
  [pads EXCEPT !.table = Append(@, [name |-> stored, setting |-> setting]),
               !.first = IF stored \in DOMAIN @ THEN @
                         ELSE [n \in DOMAIN @ \cup {stored} |->
                                 IF n = stored THEN setting ELSE @[n]]]

bt_controller_profile_create(name) ==
  /\ pads.kind = "bt profile" /\ pads.on
  /\ Len(pads.table) < TABLE_SLOTS
  /\ pads' = Entered(name, pads.force)

controller_profile_save(name) ==
  /\ pads.kind = "controller profile"
  /\ Len(pads.table) < TABLE_SLOTS
  /\ pads' = Entered(name, pads.force)

(* pause_compat_add, and pause_whitelist_add, which keeps the name alone.  *)
pause_compat_add(name, setting) ==
  /\ pads.kind = "compat" /\ Len(pads.table) < TABLE_SLOTS
  /\ pads' = Entered(name, setting)

(* The state after a search: what is found is what the caller goes by.     *)
Found(name) ==
  LET i == FirstRow(pads.table, name) IN
  IF i = 0 THEN pads ELSE [pads EXCEPT !.force = pads.table[i].setting]

bt_controller_profile_load(name) ==
  pads.kind = "bt profile" /\ pads.on /\ pads' = Found(name)

(* controller_profile_load; controller_profile_apply prints besides.       *)
controller_profile_load(name) == pads.kind = "controller profile" /\ pads' = Found(name)

(* The entry pause_soft_trigger acts on.                                   *)
pause_compat_get(name) == pads.kind = "compat" /\ pads' = Found(name)

ProfileLoad(name) ==
  bt_controller_profile_load(name) \/ controller_profile_load(name) \/ pause_compat_get(name)

(* bt_pair: a device that is paired already is entered once more.          *)
bt_pair(addr) ==
  /\ pads.kind = "bt device" /\ pads.on /\ Len(pads.table) < TABLE_SLOTS
  /\ pads' = [pads EXCEPT !.table = Append(@, [name |-> copy_name(addr), setting |-> 0]),
                          !.pairings[copy_name(addr)] = @ + 1]

BadShiftDown(table, i) == Front(table)    \* the count goes down, nothing moves

(* The entries behind i move down by one.                                  *)
ShiftDown(table, i) == RemoveAt(table, i)

(* bt_unpair: the first entry with this address goes.                      *)
bt_unpair(addr) ==
  LET i == FirstRow(pads.table, addr) IN
  /\ pads.kind = "bt device" /\ pads.on
  /\ pads' = IF i = 0 THEN pads
             ELSE [pads EXCEPT !.table = ShiftDown(@, i), !.pairings[addr] = @ - 1]

PadsNext ==
  \/ bt_init
  \/ \E v \in -1..(SETTING_MAX + 1) : controller_set(v) \/ controller_set_turbo(v)
  \/ \E v \in 0..SETTING_MAX : controller_map_set(v)
  \/ \E n \in ProfileNames :
       \/ bt_controller_profile_create(n) \/ controller_profile_save(n) \/ ProfileLoad(n)
       \/ bt_pair(n) \/ bt_unpair(n)
       \/ \E v \in 0..SETTING_MAX : pause_compat_add(n, v)

(* Loading a profile brings back the settings that were in force when one  *)
(* was first saved under that name, whatever was saved and changed since;  *)
(* a name that was never stored in full finds nothing and changes nothing. *)
LoadRestores ==
  \A n \in ProfileNames :
    ProfileLoad(n) => pads'.force = IF n \in DOMAIN pads.first THEN pads.first[n] ELSE pads.force

(* A device is listed as often as it was paired and not yet unpaired, and  *)
(* unpairing one device never drops another one from paired_devices.       *)
PairingsCounted ==
  pads.kind = "bt device" =>
    \A a \in Stored : Cardinality({i \in DOMAIN pads.table : pads.table[i].name = a}) = pads.pairings[a]

(* The tables of bluetooth.c, controller_remap.c and pause_engine.c keep   *)
(* what was entered, under the rules above.                                *)
TablesKeep == [][LoadRestores /\ PairingsCounted']_pads
===============================================================================
