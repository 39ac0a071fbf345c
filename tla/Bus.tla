--------------------------------- MODULE Bus ---------------------------------
(***************************************************************************)
(* The physical address bus: a table of devices that platform_init fills   *)
(* once, and the slot of the last access, which is tried before the table. *)
(* It is used by the CPU thread only, also by devices that fetch guest     *)
(* memory while they serve an access, so the cached slot moves behind the  *)
(* processor's back.                                                       *)
(***************************************************************************)
EXTENDS Integers, Sequences

CONSTANTS
  NrEntries,   \* bus_entries
  AddrWrap,    \* a PA is a number below this (2^32 in the program)
  Device,      \* the devices
  Map,         \* what platform_init attaches, in order
  NoDev        \* the null pointer of an empty slot

Addr  == 0 .. AddrWrap - 1
Entry == 0 .. NrEntries - 1

\* The addresses an attachment is meant to serve.
Region(m) == m.base .. m.base + m.size - 1

(* platform.h: the regions of a board are disjoint, and none of them ends  *)
(* at the top of the address space.                                        *)
ASSUME MapAssumption ==
  /\ AddrWrap \in Nat \ {0}
  /\ NrEntries \in Nat /\ Len(Map) <= NrEntries /\ 0 < NrEntries
  /\ NoDev \notin Device
  /\ Map \in Seq([dev : Device, base : Nat, size : Nat])
  /\ \A k \in DOMAIN Map : Map[k].base + Map[k].size < AddrWrap
  /\ \A k, l \in DOMAIN Map : k # l => Region(Map[k]) \cap Region(Map[l]) = {}

VARIABLES
  devs,       \* the table: device, base and size of each slot
  attached,   \* how far platform_init has come in Map
  last_dev    \* the slot of the last access; -1 after a miss

busVars == <<devs, attached, last_dev>>

Empty == [dev |-> NoDev, base |-> 0, size |-> 0]

dev_matches_addr(i, a) ==
  a >= devs[i].base /\ a < (devs[i].base + devs[i].size) % AddrWrap

find_dev_for_addr(a) ==
  IF \E i \in Entry : dev_matches_addr(i, a)
  THEN CHOOSE i \in Entry :
         dev_matches_addr(i, a) /\ \A j \in 0 .. i - 1 : ~dev_matches_addr(j, a)
  ELSE -1

\* Mutant of get_dev: the cached slot is taken when the address is not below it.
GetDevTrustingBase(a) ==
  IF a >= devs[last_dev].base THEN last_dev ELSE find_dev_for_addr(a)

get_dev(a) ==
  IF dev_matches_addr(last_dev, a) THEN last_dev ELSE find_dev_for_addr(a)

\* attach, called for each device in turn by platform_init
Attach ==
  /\ attached < Len(Map)
  /\ \E i \in Entry :
       /\ devs[i].dev = NoDev
       /\ \A j \in 0 .. i - 1 : devs[j].dev # NoDev
       /\ devs' = [devs EXCEPT ![i] = Map[attached + 1]]
  /\ attached' = attached + 1
  /\ UNCHANGED last_dev

PlatformReady == attached = Len(Map)

(* An access, also one by a device: get_dev, which remembers the slot.  A  *)
(* miss is FATAL, and the simulator makes no further access.               *)
Lookup(a) ==
  /\ PlatformReady
  /\ last_dev # -1
  /\ last_dev' = get_dev(a)
  /\ UNCHANGED <<devs, attached>>

BusInit ==
  /\ devs = [i \in Entry |-> Empty]
  /\ attached = 0
  /\ last_dev = 0

BusNext == Attach \/ \E a \in Addr : Lookup(a)

BusSpec == BusInit /\ [][BusNext]_busVars
-----------------------------------------------------------------------------
(* Whatever slot the last access left behind, be it the processor's or a   *)
(* device's fetch, the next one reaches the device whose region holds the  *)
(* address and is a miss only if none does: the slot cached by get_dev     *)
(* never changes which device answers.                                     *)
AnsweredByMap ==
  PlatformReady /\ last_dev # -1 =>
    \A a \in Addr :
      /\ \A k \in DOMAIN Map : a \in Region(Map[k]) => get_dev(a) # -1 /\ devs[get_dev(a)] = Map[k]
      /\ get_dev(a) # -1 => \E k \in DOMAIN Map : a \in Region(Map[k])
=============================================================================
