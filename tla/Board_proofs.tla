---------------------------- MODULE Board_proofs -----------------------------
(* The board: its bus answers by the memory map, for every map of disjoint *)
(* regions; its steps are steps of the bus and of the interrupt controller,*)
(* whose theorems hold of it; its block device copies what it is asked to. *)
EXTENDS Board, TLAPS
-----------------------------------------------------------------------------
(* The interrupt controller, for any set of lines.  Types hold with any    *)
(* number of threads, the rest when the CPU thread is the only one that    *)
(* calls in.                                                               *)

(* The constructor leaves a well-typed state.                              *)
LEMMA IntcInitType == IntcInit => IntcTypeOK
<1> SUFFICES ASSUME IntcInit PROVE IntcTypeOK
  OBVIOUS
<1>1. [reg |-> "ISR", how |-> "set", lines |-> {}] \in Update
  BY DEF Update, Reg, How
<1>2. doing \in [Thread -> Update]
  BY <1>1 DEF IntcInit
<1>3. reg \in [Reg -> SUBSET Line] /\ seen \in [Thread -> SUBSET Line]
  BY DEF IntcInit
<1>4. at \in [Thread -> Place] /\ triggeredCPU \in BOOLEAN /\ irqFlag \in BOOLEAN
  BY DEF IntcInit, Place
<1>5. QED
  BY <1>2, <1>3, <1>4 DEF IntcTypeOK

(* What a thread computes for ISR or IER is a set of lines.                *)
LEMMA UpdatedType ==
  ASSUME NEW old \in SUBSET Line, NEW u \in Update
  PROVE  Updated(old, u) \in SUBSET Line
BY Zenon DEF Updated, Update, How

(* Every access to a shared word keeps the state well typed.               *)
LEMMA IntcNextType == IntcTypeOK /\ [IntcNext]_intcVars => IntcTypeOK'
<1> SUFFICES ASSUME IntcTypeOK, [IntcNext]_intcVars PROVE IntcTypeOK'
  OBVIOUS
<1>e. ASSUME NEW t \in Thread, NEW u \in Update, Enter(t, u) PROVE IntcTypeOK'
  BY <1>e DEF Enter, IntcTypeOK, Place
<1>1. ASSUME NEW t \in Thread, InIntc(t) PROVE IntcTypeOK'
  <2>1. CASE Load(t)
    BY <2>1 DEF Load, IntcTypeOK, Place, Update, Reg
  <2>2. CASE Store(t)
    <3>1. Updated(seen[t], doing[t]) \in SUBSET Line
      BY UpdatedType DEF IntcTypeOK
    <3>2. QED
      BY <2>2, <3>1 DEF Store, IntcTypeOK, Place
  <2>3. CASE ReadISR(t)
    BY <2>3 DEF ReadISR, IntcTypeOK, Place, Reg
  <2>4. CASE ReadIER(t)
    BY <2>4 DEF ReadIER, IntcTypeOK, Place, Reg
  <2>5. CASE Decide(t)
    BY <2>5 DEF Decide, IntcTypeOK, Place
  <2>6. CASE Drive(t)
    BY <2>6 DEF Drive, IntcTypeOK, Place
  <2>7. QED
    BY <1>1, <2>1, <2>2, <2>3, <2>4, <2>5, <2>6 DEF InIntc
<1>2. ASSUME NEW t \in Thread, NEW n \in Line, TriggerIRQ(t, n) PROVE IntcTypeOK'
  BY <1>2, <1>e DEF TriggerIRQ, Update, Reg, How
<1>3. ASSUME NEW r \in Reg, NEW how \in How, NEW ls \in SUBSET Line, Write32(CPU, r, how, ls)
      PROVE  IntcTypeOK'
  BY <1>3, <1>e, IntcAssumption DEF Write32, Update
<1>4. CASE Write32Unused(CPU)
  BY <1>4, IntcAssumption DEF Write32Unused, IntcTypeOK, Place
<1>5. CASE UNCHANGED intcVars
  BY <1>5 DEF intcVars, IntcTypeOK
<1>6. QED
  BY <1>1, <1>2, <1>3, <1>4, <1>5 DEF IntcNext

(* Type correctness, for any lines and any number of threads.              *)
THEOREM IntcTypeCorrect == IntcSpec => []IntcTypeOK
BY IntcInitType, IntcNextType, PTL DEF IntcSpec
-----------------------------------------------------------------------------
(* What the only thread holds in a register is still what the shared words *)
(* say: the register it read, the lines that are active, the decision that *)
(* triggeredCPU records and irqFlag does not yet show.                     *)
Pending == reg["ISR"] \cap reg["IER"]

HeldIsCurrent ==
  /\ at[CPU] = "store" /\ doing[CPU].how # "set" => seen[CPU] = reg[doing[CPU].reg]
  /\ at[CPU] = "readIER" => seen[CPU] = reg["ISR"]
  /\ at[CPU] \in {"decide", "drive"} => seen[CPU] = Pending

InputFollows ==
  /\ at[CPU] = "out" => irqFlag = (Pending # {})
  /\ IF at[CPU] = "drive" THEN triggeredCPU = (Pending # {}) ELSE irqFlag = triggeredCPU

AloneInv == HeldIsCurrent /\ InputFollows

(* Alone, a thread is never overtaken: AloneInv is inductive.              *)
LEMMA AloneNext ==
  ASSUME Thread = {CPU}, IntcTypeOK, AloneInv, [IntcNext]_intcVars
  PROVE  AloneInv'
<1> USE DEF AloneInv, HeldIsCurrent, InputFollows, Pending
<1>0. at \in [Thread -> Place] /\ CPU \in Thread
  BY DEF IntcTypeOK
<1>e. ASSUME NEW u, Enter(CPU, u) PROVE AloneInv'
  BY <1>e, <1>0, IntcTypeOK DEF Enter, IntcTypeOK, Update
<1>1. CASE Load(CPU)
  BY <1>1, <1>0, IntcTypeOK DEF Load, IntcTypeOK
<1>2. CASE Store(CPU)
  BY <1>2, <1>0, IntcTypeOK DEF Store, IntcTypeOK
<1>3. CASE ReadISR(CPU)
  BY <1>3, <1>0, IntcTypeOK DEF ReadISR, IntcTypeOK
<1>4. CASE ReadIER(CPU)
  BY <1>4, <1>0, IntcTypeOK DEF ReadIER, IntcTypeOK
<1>5. CASE Decide(CPU)
  BY <1>5, <1>0, IntcTypeOK DEF Decide, IntcTypeOK
<1>6. CASE Drive(CPU)
  BY <1>6, <1>0, IntcTypeOK DEF Drive, IntcTypeOK
<1>7. CASE Write32Unused(CPU)
  BY <1>7, <1>0, IntcTypeOK DEF Write32Unused, IntcTypeOK
<1>8. CASE UNCHANGED intcVars
  BY <1>8 DEF intcVars
<1>9. QED
  BY <1>e, <1>1, <1>2, <1>3, <1>4, <1>5, <1>6, <1>7, <1>8
  DEF IntcNext, InIntc, TriggerIRQ, Write32

(* AloneInv is an invariant when only the CPU thread calls in.             *)
LEMMA AloneInvariant == ASSUME Thread = {CPU} PROVE IntcSpec => []AloneInv
<1>1. IntcInit => AloneInv
  BY DEF IntcInit, AloneInv, HeldIsCurrent, InputFollows, Pending, Reg
<1>2. IntcTypeOK /\ AloneInv /\ [IntcNext]_intcVars => AloneInv'
  BY AloneNext
<1>3. QED
  BY <1>1, <1>2, IntcTypeCorrect, PTL DEF IntcSpec

(* For any lines, as long as only the CPU thread enters the controller, the*)
(* processor's input is up between calls exactly while an enabled line is  *)
(* latched (reassessOutput); the run intc_race shows that one more thread  *)
(* is enough to break it.                                                  *)
THEOREM InputFollowsActive == ASSUME Thread = {CPU} PROVE IntcSpec => []EiFollowsActive
<1>1. AloneInv => EiFollowsActive
  BY IntcAssumption DEF AloneInv, InputFollows, Pending, EiFollowsActive, Settled, Active
<1>2. QED
  BY <1>1, AloneInvariant, PTL

(* Likewise an edge is remembered until the guest acknowledges the line or *)
(* writes ISR (triggerIRQ's |= and IAR's &= ~ are not torn).               *)
THEOREM EdgesStayLatched == ASSUME Thread = {CPU} PROVE IntcSpec => EdgesAreKept
<1> DEFINE Kept ==
      \A t \in Thread, n \in Line :
        Store(t) /\ n \in reg["ISR"] /\ n \notin reg'["ISR"]
          => t = CPU /\ (doing[t].how = "set" \/ n \in doing[t].lines)
<1>1. IntcTypeOK /\ AloneInv /\ [IntcNext]_intcVars => [Kept]_intcVars
  <2> SUFFICES ASSUME IntcTypeOK, AloneInv,
                      NEW n \in Line, Store(CPU), n \in reg["ISR"], n \notin reg'["ISR"],
                      doing[CPU].how # "set"
               PROVE  n \in doing[CPU].lines
    OBVIOUS
  <2>1. doing[CPU] \in Update /\ reg \in [Reg -> SUBSET Line]
    BY IntcAssumption DEF IntcTypeOK
  <2>2. seen[CPU] = reg[doing[CPU].reg]
    BY DEF AloneInv, HeldIsCurrent, Store
  <2>3. reg' = [reg EXCEPT ![doing[CPU].reg] = Updated(seen[CPU], doing[CPU])]
    BY DEF Store
  <2>4. doing[CPU].reg = "ISR" /\ n \notin Updated(reg["ISR"], doing[CPU])
    BY <2>1, <2>2, <2>3 DEF Reg, Update
  <2>5. doing[CPU].how \in {"or", "andnot"}
    BY <2>1 DEF Update, How
  <2>6. QED
    BY <2>4, <2>5, Zenon DEF Updated
<1>2. QED
  BY <1>1, IntcTypeCorrect, AloneInvariant, PTL DEF IntcSpec, EdgesAreKept
-----------------------------------------------------------------------------
(* The bus *)

(* The table holds the map's first `attached` entries in order, and the    *)
(* cached slot is one of the table's or none.                              *)
BusInv ==
  /\ attached \in 0 .. Len(Map)
  /\ devs = [i \in Entry |-> IF i < attached THEN Map[i + 1] ELSE Empty]
  /\ last_dev \in Entry \cup {-1}

\* Reduction modulo w leaves what is below w alone.
LEMMA ModBelow == ASSUME NEW x \in Nat, NEW w \in Nat, x < w PROVE x % w = x
  OBVIOUS

\* The elements of a sequence.
LEMMA ElementOf ==
  ASSUME NEW S, NEW s \in Seq(S), NEW k \in 1 .. Len(s)
  PROVE  k \in DOMAIN s /\ s[k] \in S
  OBVIOUS

\* What the map's assumption says of one attachment.
LEMMA MapEntry ==
  ASSUME NEW k \in 1 .. Len(Map)
  PROVE  /\ Map[k].dev \in Device /\ Map[k].dev # NoDev
         /\ Map[k].base \in Nat /\ Map[k].size \in Nat
         /\ Map[k].base + Map[k].size < AddrWrap
<1>1. Map \in Seq([dev : Device, base : Nat, size : Nat]) /\ NoDev \notin Device
  BY MapAssumption, Zenon
<1>2. k \in DOMAIN Map /\ Map[k] \in [dev : Device, base : Nat, size : Nat]
  BY <1>1, ElementOf, Zenon
<1>3. Map[k].base + Map[k].size < AddrWrap
  BY <1>2, MapAssumption, Zenon
<1> QED BY <1>1, <1>2, <1>3

\* The assumption's disjointness, for an address that two entries hold.
LEMMA OneEntry ==
  ASSUME NEW k \in 1 .. Len(Map), NEW l \in 1 .. Len(Map), NEW a,
         a \in Region(Map[k]), a \in Region(Map[l])
  PROVE  k = l
<1>1. Map \in Seq([dev : Device, base : Nat, size : Nat])
  BY MapAssumption, Zenon
<1>2. k \in DOMAIN Map /\ l \in DOMAIN Map
  BY <1>1, ElementOf, Zenon
<1> QED BY <1>2, MapAssumption, Zenon

(* Once every device is attached, slot i holds entry i + 1 of the map, and *)
(* matches exactly the addresses of its region.                            *)
LEMMA SlotMatches ==
  ASSUME BusInv, PlatformReady, NEW a \in Addr, NEW i \in Entry
  PROVE  /\ i < Len(Map) => devs[i] = Map[i + 1]
         /\ dev_matches_addr(i, a) <=> i < Len(Map) /\ a \in Region(Map[i + 1])
<1>0. Len(Map) \in Nat /\ attached = Len(Map) /\ i \in Nat /\ a \in Nat /\ AddrWrap \in Nat /\ a < AddrWrap
  BY MapAssumption DEF PlatformReady, Entry, Addr
<1>1. CASE i < Len(Map)
  <2>1. devs[i] = Map[i + 1]  BY <1>0, <1>1 DEF BusInv
  <2>2. i + 1 \in 1 .. Len(Map)  BY <1>0, <1>1
  <2>3. Map[i + 1].base \in Nat /\ Map[i + 1].size \in Nat
        /\ Map[i + 1].base + Map[i + 1].size < AddrWrap
    BY <2>2, MapEntry
  <2>4. (Map[i + 1].base + Map[i + 1].size) % AddrWrap = Map[i + 1].base + Map[i + 1].size
    <3>1. Map[i + 1].base + Map[i + 1].size \in Nat  BY <2>3
    <3> QED BY <2>3, <3>1, <1>0, ModBelow, Zenon
  <2> DEFINE e == Map[i + 1]
             hi == e.base + e.size
  <2>5. devs[i].base = e.base /\ (devs[i].base + devs[i].size) % AddrWrap = hi
    BY <2>1, <2>4, Zenon
  <2>6. Region(e) = e.base .. hi - 1 /\ e.base \in Nat /\ hi \in Nat
    BY <2>3 DEF Region
  <2>7. dev_matches_addr(i, a) <=> e.base <= a /\ a < hi
    BY <2>5 DEF dev_matches_addr
  <2> HIDE DEF e, hi
  <2>8. a \in Region(e) <=> e.base <= a /\ a < hi
    BY <1>0, <2>6
  <2> QED BY <1>1, <2>1, <2>7, <2>8 DEF e
<1>2. CASE ~(i < Len(Map))
  <2>1. devs[i] = Empty  BY <1>0, <1>2 DEF BusInv
  <2>2. (0 + 0) % AddrWrap = 0  BY <1>0, ModBelow
  <2> QED BY <1>0, <1>2, <2>1, <2>2 DEF dev_matches_addr, Empty
<1> QED BY <1>1, <1>2

\* Regions are disjoint, so at most one slot matches, and it is the one found.
LEMMA FoundByMap ==
  ASSUME BusInv, PlatformReady, NEW a \in Addr
  PROVE  /\ find_dev_for_addr(a) \in Entry \cup {-1}
         /\ find_dev_for_addr(a) # -1 => dev_matches_addr(find_dev_for_addr(a), a)
         /\ find_dev_for_addr(a) = -1 => \A i \in Entry : ~dev_matches_addr(i, a)
<1>0. Len(Map) \in Nat /\ NrEntries \in Nat  BY MapAssumption
<1>1. CASE \E i \in Entry : dev_matches_addr(i, a)
  <2>1. PICK i \in Entry : dev_matches_addr(i, a)  BY <1>1
  <2>2. \A j \in Entry : dev_matches_addr(j, a) => j = i
    <3>1. SUFFICES ASSUME NEW j \in Entry, dev_matches_addr(j, a) PROVE j = i  OBVIOUS
    <3>2. /\ i < Len(Map) /\ a \in Region(Map[i + 1])
          /\ j < Len(Map) /\ a \in Region(Map[j + 1])
      BY <2>1, <3>1, SlotMatches
    <3>3. i + 1 \in 1 .. Len(Map) /\ j + 1 \in 1 .. Len(Map)
      BY <1>0, <3>2 DEF Entry
    <3>4. i + 1 = j + 1  BY <3>2, <3>3, OneEntry
    <3> QED BY <1>0, <3>4 DEF Entry
  <2>3. \A j \in 0 .. i - 1 : ~dev_matches_addr(j, a)
    BY <1>0, <2>2 DEF Entry
  <2>4. /\ find_dev_for_addr(a) \in Entry
        /\ dev_matches_addr(find_dev_for_addr(a), a)
    BY <1>1, <2>1, <2>3, Zenon DEF find_dev_for_addr
  <2> QED BY <1>0, <2>4 DEF Entry
<1>2. CASE ~\E i \in Entry : dev_matches_addr(i, a)
  BY <1>2 DEF find_dev_for_addr
<1> QED BY <1>1, <1>2

\* The same of get_dev, whichever slot is cached.
LEMMA GotByMap ==
  ASSUME BusInv, PlatformReady, last_dev # -1, NEW a \in Addr
  PROVE  /\ get_dev(a) \in Entry \cup {-1}
         /\ get_dev(a) # -1 => dev_matches_addr(get_dev(a), a)
         /\ get_dev(a) = -1 => \A i \in Entry : ~dev_matches_addr(i, a)
<1>1. last_dev \in Entry  BY DEF BusInv
<1>2. CASE dev_matches_addr(last_dev, a)
  BY <1>1, <1>2, MapAssumption DEF get_dev, Entry
<1>3. CASE ~dev_matches_addr(last_dev, a)
  BY <1>3, FoundByMap DEF get_dev
<1> QED BY <1>2, <1>3

\* Every step of the bus keeps the table a prefix of the map.
LEMMA BusInvStep ==
  ASSUME BusInv, [BusNext]_busVars
  PROVE  BusInv'
<1>0. Len(Map) \in Nat /\ NrEntries \in Nat /\ Len(Map) <= NrEntries  BY MapAssumption
<1>1. CASE Attach
  <2>1. PICK i \in Entry : /\ devs[i].dev = NoDev
                           /\ \A j \in 0 .. i - 1 : devs[j].dev # NoDev
                           /\ devs' = [devs EXCEPT ![i] = Map[attached + 1]]
    BY <1>1 DEF Attach
  <2>2. attached \in 0 .. Len(Map) - 1 /\ attached' = attached + 1 /\ last_dev' = last_dev
    BY <1>0, <1>1 DEF Attach, BusInv
  <2>3. ~(i < attached)
    <3>1. SUFFICES ASSUME i < attached PROVE FALSE  OBVIOUS
    <3>2. i + 1 \in 1 .. Len(Map)  BY <1>0, <2>2, <3>1 DEF Entry
    <3>3. devs[i] = Map[i + 1]  BY <3>1 DEF BusInv
    <3> QED BY <2>1, <3>2, <3>3, MapEntry
  <2>4. ~(attached < i)
    <3>1. SUFFICES ASSUME attached < i PROVE FALSE  OBVIOUS
    <3>2. attached \in Entry /\ attached \in 0 .. i - 1  BY <1>0, <2>2, <3>1 DEF Entry
    <3>3. devs[attached].dev = NoDev  BY <2>2, <3>2 DEF BusInv, Empty
    <3> QED BY <2>1, <3>2, <3>3
  <2>5. i = attached  BY <2>2, <2>3, <2>4 DEF Entry
  <2>6. devs' = [j \in Entry |-> IF j < attached + 1 THEN Map[j + 1] ELSE Empty]
    <3>1. devs = [j \in Entry |-> IF j < attached THEN Map[j + 1] ELSE Empty]  BY DEF BusInv
    <3>2. \A j \in Entry : j < attached + 1 <=> j < attached \/ j = attached
      BY <1>0, <2>2 DEF Entry
    <3>3. devs' = [j \in Entry |-> IF j = attached THEN Map[attached + 1] ELSE devs[j]]
      BY <2>1, <2>5, <3>1
    <3> QED BY <2>2, <3>1, <3>2, <3>3
  <2>7. attached' \in 0 .. Len(Map)  BY <1>0, <2>2
  <2> QED BY <2>2, <2>6, <2>7 DEF BusInv
<1>2. CASE \E a \in Addr : Lookup(a)
  <2>1. PICK a \in Addr : Lookup(a)  BY <1>2
  <2>2. get_dev(a) \in Entry \cup {-1}  BY <2>1, GotByMap DEF Lookup
  <2> QED BY <2>1, <2>2 DEF Lookup, BusInv
<1>3. CASE UNCHANGED busVars
  BY <1>3 DEF BusInv, busVars
<1> QED BY <1>1, <1>2, <1>3 DEF BusNext

(* The bus answers by the memory map: for every board whose regions are    *)
(* disjoint, and every order of accesses by the processor and by devices,  *)
(* the slot that get_dev caches never changes which device answers.        *)
THEOREM BusAnswersByMap == BusSpec => []AnsweredByMap
<1>1. BusInit => BusInv
  BY MapAssumption DEF BusInit, BusInv, Entry
<1>2. BusInv /\ [BusNext]_busVars => BusInv'
  BY BusInvStep
<1>3. BusInv => AnsweredByMap
  <2>1. SUFFICES ASSUME BusInv, PlatformReady, last_dev # -1, NEW a \in Addr
                 PROVE  /\ \A k \in DOMAIN Map : a \in Region(Map[k]) =>
                             get_dev(a) # -1 /\ devs[get_dev(a)] = Map[k]
                        /\ get_dev(a) # -1 => \E k \in DOMAIN Map : a \in Region(Map[k])
    BY DEF AnsweredByMap
  <2>2. ASSUME NEW k \in DOMAIN Map, a \in Region(Map[k])
        PROVE  get_dev(a) # -1 /\ devs[get_dev(a)] = Map[k]
    <3>0. Len(Map) \in Nat /\ NrEntries \in Nat /\ Len(Map) <= NrEntries /\ k \in 1 .. Len(Map)
      BY <2>2, MapAssumption
    <3>1. k - 1 \in Entry /\ k - 1 < Len(Map) /\ (k - 1) + 1 = k
      BY <3>0 DEF Entry
    <3>2. dev_matches_addr(k - 1, a)  BY <2>1, <2>2, <3>1, SlotMatches
    <3>3. get_dev(a) \in Entry /\ dev_matches_addr(get_dev(a), a)
      BY <2>1, <3>1, <3>2, GotByMap
    <3>4. /\ get_dev(a) < Len(Map) /\ a \in Region(Map[get_dev(a) + 1])
          /\ devs[get_dev(a)] = Map[get_dev(a) + 1]
      BY <2>1, <3>3, SlotMatches
    <3>5. get_dev(a) + 1 \in 1 .. Len(Map)  BY <3>0, <3>3, <3>4 DEF Entry
    <3>6. get_dev(a) + 1 = k  BY <2>2, <3>0, <3>4, <3>5, OneEntry
    <3>7. get_dev(a) # -1  BY <3>0, <3>3 DEF Entry
    <3> QED BY <3>4, <3>6, <3>7, Zenon
  <2>3. ASSUME get_dev(a) # -1 PROVE \E k \in DOMAIN Map : a \in Region(Map[k])
    <3>1. get_dev(a) \in Entry /\ dev_matches_addr(get_dev(a), a)
      BY <2>1, <2>3, GotByMap
    <3>2. get_dev(a) < Len(Map) /\ a \in Region(Map[get_dev(a) + 1])
      BY <2>1, <3>1, SlotMatches
    <3>0. Len(Map) \in Nat /\ NrEntries \in Nat /\ DOMAIN Map = 1 .. Len(Map)  BY MapAssumption
    <3>3. get_dev(a) + 1 \in DOMAIN Map  BY <3>0, <3>1, <3>2 DEF Entry
    <3> QED BY <3>2, <3>3
  <2> QED BY <2>2, <2>3
<1> QED BY <1>1, <1>2, <1>3, PTL DEF BusSpec
-----------------------------------------------------------------------------
(* The board is made of its components *)

(* The registers that DMA goes by hold addresses.                          *)
SbdRegsOK ==
  /\ sbdReg \in [{"PA", "LEN", "BLK_START"} -> 0 .. U32 - 1]
  /\ sbdReg.PA \in Addr

LcdcRegsOK ==
  lcdc \in [en : BOOLEAN, sx : {1} \cup ScalesX, sy : {1} \cup ScalesY, bpp : {0} \cup Depths,
            base : Addr, pidx : {0} \cup PalIdx]

LEMMA RegsInit == ASSUME BoardInit PROVE SbdRegsOK /\ LcdcRegsOK
<1>1. 0 \in Addr /\ 0 \in 0 .. U32 - 1
  BY SbdAssumption, MapAssumption DEF Addr
<1>2. SbdRegsOK
  <2>1. sbdReg = [PA |-> 0, LEN |-> 0, BLK_START |-> 0]
    BY DEF BoardInit, SbdInit
  <2> QED BY <1>1, <2>1 DEF SbdRegsOK
<1>3. LcdcRegsOK
  BY <1>1 DEF BoardInit, LcdcInit, LcdcRegsOK
<1> QED BY <1>2, <1>3

\* Only the guest's stores to them change the registers.
LEMMA RegsStep ==
  ASSUME SbdRegsOK, LcdcRegsOK, [BoardNext]_boardVars
  PROVE  SbdRegsOK' /\ LcdcRegsOK'
<1>1. sbdReg' = sbdReg \/ \E r \in DOMAIN RegValues : \E v \in RegValues[r] : WriteReg(r, v)
  BY DEF BoardNext, boardVars, sbdVars, quitVars, PlatformInit, Read, RamStore, WriteRam, SbdStore, WriteCmd,
         LcdcStore, SpiStore, GpioStore, IntcStore, Interrupting, IntcStep, SbdIgnored, Ignored, Idle,
         SbdCommand, Refused, DoRead, DoWrite, Poll, BadAccess, BadDma, Stop, Quit, SaveOpen, SaveIntc,
         SaveUart, Save
<1>2. lcdc' = lcdc \/ LcdcWrite
  BY DEF BoardNext, boardVars, lcdcVars, quitVars, PlatformInit, Read, RamStore, SbdStore,
         LcdcStore, SpiStore, GpioStore, IntcStore, Interrupting, IntcStep, SbdIgnored,
         SbdCommand, Poll, Refresh, BadAccess, BadDma, Stop, Quit, SaveOpen, SaveIntc,
         SaveUart, Save
<1>3. SbdRegsOK'
  <2>1. ASSUME NEW r \in DOMAIN RegValues, NEW v \in RegValues[r], WriteReg(r, v)
        PROVE  SbdRegsOK'
    <3>1. r \in {"PA", "LEN", "BLK_START"} /\ v \in 0 .. U32 - 1 /\ (r = "PA" => v \in Addr)
      BY <2>1, BoardAssumption
    <3>2. sbdReg' = [sbdReg EXCEPT ![r] = v]
      BY <2>1 DEF WriteReg
    <3> QED BY <3>1, <3>2 DEF SbdRegsOK
  <2> QED BY <1>1, <2>1 DEF SbdRegsOK
<1>4. LcdcRegsOK'
  <2>1. FbBases \subseteq Addr
    BY BoardAssumption
  <2> QED BY <1>2, <2>1 DEF LcdcRegsOK, LcdcWrite, SetCtrl, SetDsize, SetFbBase, SetBpp, SetPalIdx, SetPalEntry
<1> QED BY <1>3, <1>4

\* Guests touch addresses.
LEMMA GuestAddrs == GuestAddr \subseteq Addr
<1> SUFFICES ASSUME NEW k \in DOMAIN Map, NEW a \in Region(Map[k])
             PROVE  a \in Addr
  BY BoardAssumption DEF GuestAddr
<1>1. k \in 1 .. Len(Map) /\ AddrWrap \in Nat
  BY MapAssumption
<1>2. Map[k].base \in Nat /\ Map[k].size \in Nat /\ Map[k].base + Map[k].size < AddrWrap
  BY <1>1, MapEntry
<1> DEFINE e == Map[k]
<1>3. a \in e.base .. e.base + e.size - 1
  BY DEF Region
<1> HIDE DEF e
<1> QED BY <1>1, <1>2, <1>3, SMTT(60) DEF e, Addr

(* Whatever the guest and the main loop do, what the bus sees is            *)
(* platform_init's attachments and then accesses.                          *)
LEMMA BoardStepsTheBus ==
  ASSUME SbdRegsOK, LcdcRegsOK, [BoardNext]_boardVars
  PROVE  [BusNext]_busVars
<1>1. ASSUME NEW a \in Addr, Lookup(a) PROVE BusNext
  BY <1>1 DEF BusNext
<1>2. sbdReg.PA \in Addr /\ lcdc.base \in Addr
  BY DEF SbdRegsOK, LcdcRegsOK
<1>3. CASE Read \/ RamStore \/ SbdStore \/ LcdcStore \/ SpiStore \/ GpioStore \/ IntcStore \/ Interrupting
  BY <1>1, <1>3, GuestAddrs
  DEF Read, RamStore, SbdStore, LcdcStore, SpiStore, GpioStore, IntcStore, Interrupting, Access
<1>4. CASE SbdCommand \/ Poll
  BY <1>1, <1>2, <1>4 DEF SbdCommand, Poll, DirectMap
<1>5. CASE BadAccess \/ BadDma
  BY <1>1, <1>2, <1>5, GuestAddrs DEF BadAccess, BadDma
<1>6. CASE PlatformInit
  BY <1>6 DEF PlatformInit, BusNext
<1>7. CASE IntcStep \/ SbdIgnored \/ Stop \/ SaveOpen \/ SaveIntc \/ SaveUart \/ UNCHANGED boardVars
  BY <1>7 DEF IntcStep, SbdIgnored, Stop, SaveOpen, SaveIntc, SaveUart, Save, boardVars
<1> QED BY <1>3, <1>4, <1>5, <1>6, <1>7 DEF BoardNext

(* On the CPU thread the interrupt controller is entered by the guest's    *)
(* stores and by the devices that it makes interrupt, and by no one else.  *)
LEMMA BoardStepsTheIntc ==
  ASSUME [BoardNext]_boardVars
  PROVE  [IntcNext]_intcVars
<1>1. CASE IntcStore
  BY <1>1 DEF IntcStore, IntcNext
<1>2. CASE Interrupting
  BY <1>2, IntcAssumption DEF Interrupting, IntcNext
<1>3. CASE IntcStep
  BY <1>3, IntcAssumption DEF IntcStep, IntcNext
<1>4. CASE ~(IntcStore \/ Interrupting \/ IntcStep)
  BY <1>4 DEF BoardNext, boardVars, PlatformInit, Read, RamStore, SbdStore, LcdcStore, SpiStore,
              GpioStore, SbdIgnored, SbdCommand, Poll, BadAccess, BadDma, Stop, Quit,
              SaveOpen, SaveIntc, SaveUart, Save
<1> QED BY <1>1, <1>2, <1>3, <1>4

(* The board implements its bus and its interrupt controller: devices that *)
(* fetch memory, the display's poll and a FATAL in the middle of an access *)
(* included, a behaviour of the board is a behaviour of each.              *)
THEOREM BoardImplementsItsParts == BoardSpec => BusSpec /\ IntcSpec
<1> DEFINE Inv == SbdRegsOK /\ LcdcRegsOK
<1>1. BoardInit => Inv /\ BusInit /\ IntcInit
  BY RegsInit DEF BoardInit
<1>2. Inv /\ [BoardNext]_boardVars => Inv' /\ [BusNext]_busVars /\ [IntcNext]_intcVars
  BY RegsStep, BoardStepsTheBus, BoardStepsTheIntc
<1> HIDE DEF Inv
<1> QED BY <1>1, <1>2, PTL DEF BoardSpec, BusSpec, IntcSpec

(* So whatever DMA did to the cached slot, an access of the board reaches  *)
(* the device of its address (get_dev).                                    *)
THEOREM BoardAnswersByMap == BoardSpec => []AnsweredByMap
BY BoardImplementsItsParts, BusAnswersByMap, PTL

(* And when the board's accesses are all there is, the processor's input is*)
(* up exactly while an enabled interrupt is latched, and no edge is lost   *)
(* (reassessOutput, triggerIRQ).                                           *)
THEOREM BoardInterruptsArrive ==
  ASSUME Thread = {CPU}
  PROVE  BoardSpec => []IntcTypeOK /\ []EiFollowsActive /\ EdgesAreKept
<1>1. IntcSpec => []EiFollowsActive
  BY InputFollowsActive
<1>2. IntcSpec => EdgesAreKept
  BY EdgesStayLatched
<1> QED BY <1>1, <1>2, IntcTypeCorrect, BoardImplementsItsParts, PTL
-----------------------------------------------------------------------------
(* The block device *)

LEMMA MaxOf == ASSUME NEW x \in Int, NEW y \in Int PROVE Max({x, y}) = IF x >= y THEN x ELSE y
BY DEF Max

LEMMA MinOf ==
  ASSUME NEW x \in Int, NEW y \in Int
  PROVE  Min({x, y}) \in Int /\ Min({x, y}) <= x /\ Min({x, y}) <= y
<1>1. Min({x, y}) = IF x <= y THEN x ELSE y
  BY DEF Min
<1> QED BY <1>1

\* A run of blocks ends where its request does.
LEMMA ShortRun ==
  ASSUME NEW c \in Nat, NEW x \in Int, NEW k \in 0 .. Min({c, x})
  PROVE  k \in 0 .. c
<1> DEFINE m == Min({c, x})
<1>1. m \in Int /\ m <= c /\ k \in 0 .. m
  BY MinOf
<1> HIDE DEF m
<1> QED BY <1>1

\* A function on 1..m is a sequence of that length.
LEMMA FunctionIsSeq ==
  ASSUME NEW m \in Nat, NEW f, f = [b \in 1 .. m |-> f[b]]
  PROVE  f \in Seq(Range(f)) /\ Len(f) = m
<1>1. f \in [1 .. m -> Range(f)]
  BY DEF Range
<1>2. f \in Seq(Range(f))
  BY <1>1
<1> QED BY <1>1, <1>2

(* The device's memory is the RAM behind the bus, and its image has at     *)
(* least the blocks it was opened with.                                    *)
SbdInv ==
  /\ ram = [a \in RamAddr |-> ram[a]]
  /\ image \in Seq(Range(image))
  /\ nr_blocks \in Nat /\ nr_blocks <= Len(image)
  /\ spilled \in BOOLEAN

LEMMA SbdInvInit == ASSUME BoardInit PROVE SbdInv
<1>1. SbdInit
  BY DEF BoardInit
<1>2. ram = [a \in RamAddr |-> ram[a]]
  BY <1>1 DEF SbdInit, LoadAtOffset
<1>3. image \in Seq(Range(image))
  BY <1>1, SbdAssumption DEF SbdInit
<1>4. nr_blocks \in Nat /\ nr_blocks <= Len(image)
  BY <1>1, <1>3 DEF SbdInit
<1> QED BY <1>1, <1>2, <1>3, <1>4 DEF SbdInit, SbdInv

\* What a write leaves of the image.
LEMMA Written ==
  ASSUME SbdRegsOK, SbdInv, NEW k \in Nat, Offset \in Nat,
         image' = [b \in 1 .. Max({Len(image), Offset + k}) |-> image'[b]]
  PROVE  image' \in Seq(Range(image')) /\ Len(image') = Max({Len(image), Offset + k})
         /\ Len(image') >= Len(image)
<1>1. Len(image) \in Nat /\ Offset + k \in Nat
  BY DEF SbdInv
<1>2. Max({Len(image), Offset + k}) \in Nat /\ Max({Len(image), Offset + k}) >= Len(image)
  <2> DEFINE l == Len(image)
             r == Offset + k
  <2>1. l \in Nat /\ r \in Nat /\ l \in Int /\ r \in Int
    BY <1>1
  <2> HIDE DEF l, r
  <2>2. Max({l, r}) \in Nat /\ Max({l, r}) >= l
    <3>1. Max({l, r}) = IF l >= r THEN l ELSE r
      BY <2>1, MaxOf, Zenon
    <3> DEFINE m == Max({l, r})
    <3>2. m = IF l >= r THEN l ELSE r
      BY <3>1
    <3> HIDE DEF m
    <3>3. m \in Nat /\ m >= l
      BY <2>1, <3>2
    <3> QED BY <3>3 DEF m
  <2> QED BY <2>2 DEF l, r
<1> QED BY <1>2, FunctionIsSeq

LEMMA RequestSizes ==
  ASSUME SbdRegsOK
  PROVE  /\ sbdReg.PA \in Nat /\ sbdReg.LEN \in 0 .. U32 - 1 /\ sbdReg.BLK_START \in 0 .. U32 - 1
         /\ BlocksWrap \in Nat \ {0} /\ Offset \in Nat /\ Count \in Nat
         /\ sbdReg.BLK_START < BlocksWrap => Offset = sbdReg.BLK_START
         /\ sbdReg.LEN < BlocksWrap => Count = sbdReg.LEN
<1>1. sbdReg.PA \in Nat /\ sbdReg.LEN \in 0 .. U32 - 1 /\ sbdReg.BLK_START \in 0 .. U32 - 1
  BY SbdAssumption DEF SbdRegsOK
<1>2. BlocksWrap \in Nat \ {0}
  <2>1. U32 = BlkSize * BlocksWrap + (U32 % BlkSize) /\ U32 % BlkSize \in 0 .. BlkSize - 1 /\ BlocksWrap \in Nat
    BY SbdAssumption DEF BlocksWrap
  <2>2. BlocksWrap # 0
    <3> SUFFICES ASSUME BlocksWrap = 0 PROVE FALSE
      OBVIOUS
    <3>1. BlkSize * BlocksWrap = 0
      BY SbdAssumption
    <3> QED BY <2>1, <3>1, SbdAssumption
  <2> QED BY <2>1, <2>2
<1> QED BY <1>1, <1>2, ModBelow DEF Offset, Count

\* What keeps memory and image whole: stores and commands replace blocks.
LEMMA SbdInvStep ==
  ASSUME SbdRegsOK, SbdInv, [BoardNext]_boardVars
  PROVE  SbdInv'
<1>1. \/ \E a, v : WriteRam(a, v)
      \/ DoRead \/ DoWrite
      \/ UNCHANGED <<ram, image, nr_blocks, spilled>>
  BY DEF BoardNext, boardVars, sbdVars, quitVars, PlatformInit, Read, RamStore, SbdStore, WriteReg, WriteCmd,
         LcdcStore, SpiStore, GpioStore, IntcStore, Interrupting, IntcStep, SbdIgnored, Ignored, Idle,
         SbdCommand, Refused, Poll, BadAccess, BadDma, Stop, Quit, SaveOpen, SaveIntc,
         SaveUart, Save
<1>2. CASE \E a, v : WriteRam(a, v)
  BY <1>2 DEF WriteRam, SbdInv
<1>3. CASE DoRead
  BY <1>3 DEF DoRead, Idle, SbdInv
<1>4. CASE DoWrite
  <2>1. PICK k \in 0 .. Min({Count, MaxImage - Offset}) :
          image' = [b \in 1 .. Max({Len(image), Offset + k}) |->
                     IF b \in Offset + 1 .. Offset + k
                     THEN LET a == sbdReg.PA + b - 1 - Offset IN
                          IF a \in BankOf(sbdReg.PA) THEN ram[a] ELSE Junk
                     ELSE image[b]]
    BY <1>4 DEF DoWrite
  <2>2. k \in Nat /\ Offset \in Nat
    BY <2>1, RequestSizes
  <2>3. image' = [b \in 1 .. Max({Len(image), Offset + k}) |-> image'[b]]
    BY <2>1
  <2>4. image' \in Seq(Range(image')) /\ Len(image') >= Len(image) /\ Len(image') \in Nat
    BY <2>2, <2>3, Written
  <2>5. UNCHANGED <<ram, nr_blocks, spilled>>
    BY <1>4 DEF DoWrite, Idle
  <2>6. nr_blocks' \in Nat /\ nr_blocks' <= Len(image')
    BY <2>4, <2>5 DEF SbdInv
  <2> QED BY <2>4, <2>5, <2>6 DEF SbdInv
<1>5. CASE UNCHANGED <<ram, image, nr_blocks, spilled>>
  BY <1>5 DEF SbdInv
<1> QED BY <1>1, <1>2, <1>3, <1>4, <1>5

\* A request that is neither refused nor wraps lies in the image.
LEMMA SaneRequest ==
  ASSUME SbdRegsOK, SbdInv, Sane, ~OffEnd(sbdReg.BLK_START, sbdReg.LEN)
  PROVE  /\ sbdReg.BLK_START + sbdReg.LEN <= nr_blocks
         /\ Offset = sbdReg.BLK_START /\ Count = sbdReg.LEN
<1>1. sbdReg.LEN \in Nat /\ sbdReg.BLK_START \in Nat /\ nr_blocks \in Nat /\ U32 \in Nat /\ BlocksWrap \in Nat
  BY RequestSizes, SbdAssumption DEF SbdInv
<1>2. sbdReg.BLK_START + sbdReg.LEN \in Nat /\ sbdReg.BLK_START + sbdReg.LEN < U32
  BY <1>1 DEF Sane
<1>3. (sbdReg.BLK_START + sbdReg.LEN) % U32 = sbdReg.BLK_START + sbdReg.LEN
  BY <1>1, <1>2, ModBelow, Zenon
<1>4. sbdReg.BLK_START + sbdReg.LEN <= nr_blocks /\ sbdReg.BLK_START < nr_blocks
  BY <1>1, <1>2, <1>3 DEF OffEnd
<1>5. nr_blocks < BlocksWrap
  BY DEF Sane
<1> QED BY <1>1, <1>4, <1>5, RequestSizes

\* Where the blocks of a write to the image come from.
LEMMA BlockSource ==
  ASSUME NEW pa \in Nat, NEW start \in Nat, NEW len \in Nat, NEW k \in 0 .. len,
         NEW b \in start + 1 .. start + k
  PROVE  pa + b - 1 - start \in pa .. pa + len - 1
OBVIOUS

\* Blocks are numbered from 0 in the request and from 1 in the image.
LEMMA BlockNumbers ==
  ASSUME NEW start \in Nat, NEW k \in Nat, NEW b \in Nat
  PROVE  b \in start + 1 .. start + k <=> b - 1 \in start .. start + k - 1
OBVIOUS

\* A shorter run is a part of the longer one.
LEMMA RunWithin ==
  ASSUME NEW pa \in Nat, NEW len \in Nat, NEW k \in 0 .. len
  PROVE  pa .. pa + k - 1 \subseteq pa .. pa + len - 1
OBVIOUS

\* What CopiesTheRequest says of one step, for the number of blocks moved.
Copied(k) ==
  /\ k > 0 => sbdReg.BLK_START + sbdReg.LEN <= nr_blocks
  /\ ram' = [a \in RamAddr |->
               IF cmd = "RD" /\ a \in sbdReg.PA .. sbdReg.PA + k - 1
               THEN FromImage(a) ELSE ram[a]]
  /\ image' = [b \in 1 .. Len(image) |->
                 IF cmd = "WR" /\ b - 1 \in sbdReg.BLK_START .. sbdReg.BLK_START + k - 1
                 THEN ram[sbdReg.PA + b - 1 - sbdReg.BLK_START] ELSE image[b]]
  /\ spilled' = spilled

LEMMA CommandCopies ==
  ASSUME SbdRegsOK, SbdInv, [BoardNext]_boardVars, cmd # "IDLE", cmd' = "IDLE", Sane
  PROVE  \E k \in 0 .. sbdReg.LEN : Copied(k)
<1>1. Ignored \/ Refused \/ DoRead \/ DoWrite
  BY DEF BoardNext, boardVars, sbdVars, quitVars, PlatformInit, Read, RamStore, WriteRam, SbdStore,
         WriteReg, WriteCmd, Access, CpuFree,
         LcdcStore, SpiStore, GpioStore, IntcStore, Interrupting, IntcStep, SbdIgnored,
         SbdCommand, Poll, BadAccess, BadDma, Stop, Quit, SaveOpen, SaveIntc,
         SaveUart, Save
<1>2. /\ sbdReg.LEN \in Nat /\ sbdReg.BLK_START \in Nat /\ sbdReg.PA \in Nat
      /\ Len(image) \in Nat /\ image = [b \in 1 .. Len(image) |-> image[b]]
      /\ ram = [a \in RamAddr |-> ram[a]] /\ spilled \in BOOLEAN /\ nr_blocks \in Nat /\ nr_blocks <= Len(image)
  BY RequestSizes DEF SbdInv
<1>3. CASE Ignored \/ Refused
  <2>1. ram' = ram /\ image' = image /\ spilled' = spilled
    BY <1>3 DEF Ignored, Refused
  <2>2. ~\E a : a \in sbdReg.PA .. sbdReg.PA + 0 - 1
    BY <1>2
  <2>3. \A b \in 1 .. Len(image) : b - 1 \notin sbdReg.BLK_START .. sbdReg.BLK_START + 0 - 1
    BY <1>2
  <2>4. Copied(0)
    BY <1>2, <2>1, <2>2, <2>3 DEF Copied
  <2> QED BY <1>2, <2>4
<1>4. CASE DoRead
  <2>1. PICK k \in 0 .. Min({Count, Max({Len(image) - Offset, 0})}) :
          LET to == sbdReg.PA .. sbdReg.PA + k - 1 IN
          /\ ram' = [a \in RamAddr |-> IF a \in to \cap BankOf(sbdReg.PA)
                                       THEN image[Offset + a - sbdReg.PA + 1] ELSE ram[a]]
          /\ spilled' = (spilled \/ ~(to \subseteq BankOf(sbdReg.PA)))
    BY <1>4 DEF DoRead
  <2> DEFINE to == sbdReg.PA .. sbdReg.PA + k - 1
  <2>2. cmd = "RD" /\ image' = image /\ ~OffEnd(sbdReg.BLK_START, sbdReg.LEN)
    BY <1>4 DEF DoRead
  <2>3. /\ sbdReg.BLK_START + sbdReg.LEN <= nr_blocks
        /\ Offset = sbdReg.BLK_START /\ Count = sbdReg.LEN
    BY <2>2, SaneRequest
  <2>4. k \in 0 .. sbdReg.LEN
    <3> DEFINE c == Count
               l == Len(image) - Offset
               z == 0
               x == Max({l, z})
    <3>1. c \in Nat /\ l \in Int /\ z \in Int /\ c = sbdReg.LEN /\ k \in 0 .. Min({c, x})
      BY <1>2, <2>3
    <3> HIDE DEF c, l, z
    <3>2. x \in Int
      BY <3>1, MaxOf
    <3> HIDE DEF x
    <3> QED BY <3>1, <3>2, ShortRun
  <2>5. to \subseteq BankOf(sbdReg.PA)
    <3>1. sbdReg.PA .. sbdReg.PA + sbdReg.LEN - 1 \subseteq BankOf(sbdReg.PA)
      BY DEF Sane
    <3>2. to \subseteq sbdReg.PA .. sbdReg.PA + sbdReg.LEN - 1
      BY <1>2, <2>4, RunWithin, Zenon DEF to
    <3> QED BY <3>1, <3>2
  <2>6. ram' = [a \in RamAddr |-> IF a \in to THEN FromImage(a) ELSE ram[a]]
    BY <2>1, <2>3, <2>5 DEF FromImage
  <2>7. spilled' = spilled
    BY <1>2, <2>1, <2>5
  <2>8. Copied(k)
    BY <1>2, <2>2, <2>3, <2>6, <2>7 DEF Copied
  <2> QED BY <2>4, <2>8
<1>5. CASE DoWrite
  <2>1. PICK k \in 0 .. Min({Count, MaxImage - Offset}) :
          image' = [b \in 1 .. Max({Len(image), Offset + k}) |->
                     IF b \in Offset + 1 .. Offset + k
                     THEN LET a == sbdReg.PA + b - 1 - Offset IN
                          IF a \in BankOf(sbdReg.PA) THEN ram[a] ELSE Junk
                     ELSE image[b]]
    BY <1>5 DEF DoWrite
  <2>2. cmd = "WR" /\ ram' = ram /\ spilled' = spilled /\ ~OffEnd(sbdReg.BLK_START, sbdReg.LEN)
    BY <1>5 DEF DoWrite
  <2>3. /\ sbdReg.BLK_START + sbdReg.LEN <= nr_blocks
        /\ Offset = sbdReg.BLK_START /\ Count = sbdReg.LEN
    BY <2>2, SaneRequest
  <2>4. k \in 0 .. sbdReg.LEN
    <3> DEFINE c == Count
               x == MaxImage - Offset
    <3>1. c \in Nat /\ x \in Int /\ c = sbdReg.LEN /\ k \in 0 .. Min({c, x})
      BY <1>2, <2>3, SbdAssumption
    <3> HIDE DEF c, x
    <3> QED BY <3>1, ShortRun
  <2>5. Max({Len(image), Offset + k}) = Len(image)
    <3> DEFINE l == Len(image)
               r == Offset + k
    <3>1. l \in Int /\ r \in Int /\ l >= r
      BY <1>2, <2>3, <2>4
    <3> HIDE DEF l, r
    <3>2. Max({l, r}) = l
      BY <3>1, MaxOf
    <3> QED BY <3>2 DEF l, r
  <2>6. ASSUME NEW b \in 1 .. Len(image)
        PROVE  image'[b] = IF b - 1 \in sbdReg.BLK_START .. sbdReg.BLK_START + k - 1
                           THEN ram[sbdReg.PA + b - 1 - sbdReg.BLK_START] ELSE image[b]
    <3>1. b \in Offset + 1 .. Offset + k <=> b - 1 \in sbdReg.BLK_START .. sbdReg.BLK_START + k - 1
      <4>1. Offset = sbdReg.BLK_START /\ sbdReg.BLK_START \in Nat /\ k \in Nat /\ b \in Nat
        BY <1>2, <2>3, <2>4
      <4>2. b \in sbdReg.BLK_START + 1 .. sbdReg.BLK_START + k
            <=> b - 1 \in sbdReg.BLK_START .. sbdReg.BLK_START + k - 1
        BY <4>1, BlockNumbers, Zenon
      <4> QED BY <4>1, <4>2, Zenon
    <3>2. CASE b \in Offset + 1 .. Offset + k
      <4>1. sbdReg.PA + b - 1 - Offset \in sbdReg.PA .. sbdReg.PA + sbdReg.LEN - 1
        <5> DEFINE start == Offset
        <5>1. start \in Nat /\ b \in start + 1 .. start + k
          BY <1>2, <2>3, <3>2
        <5> HIDE DEF start
        <5>2. sbdReg.PA + b - 1 - start \in sbdReg.PA .. sbdReg.PA + sbdReg.LEN - 1
          BY <1>2, <2>4, <5>1, BlockSource
        <5> QED BY <5>2 DEF start
      <4>2. sbdReg.PA + b - 1 - Offset \in BankOf(sbdReg.PA)
        BY <4>1 DEF Sane
      <4>3. image'[b] = ram[sbdReg.PA + b - 1 - Offset]
        BY <2>1, <2>5, <3>2, <4>2
      <4> QED BY <2>3, <3>1, <3>2, <4>3
    <3>3. CASE b \notin Offset + 1 .. Offset + k
      BY <2>1, <2>5, <3>1, <3>3
    <3> QED BY <3>2, <3>3
  <2>7. image' = [b \in 1 .. Len(image) |-> image'[b]]
    BY <2>1, <2>5
  <2>8. Copied(k)
    BY <1>2, <2>2, <2>3, <2>6, <2>7 DEF Copied
  <2> QED BY <2>4, <2>8
<1> QED BY <1>1, <1>3, <1>4, <1>5

(* A command of the guest, whose registers may hold anything and whose     *)
(* reads and writes the host may cut short, copies a run of the requested  *)
(* blocks between the image and the memory at PA and changes no other, for *)
(* every board and every image (doRead, doWrite, getAddrDMA).              *)
THEOREM DiskCopiesTheRequest == BoardSpec => CopiesTheRequest
<1> DEFINE Inv == SbdRegsOK /\ LcdcRegsOK /\ SbdInv
           Copies ==
             cmd # "IDLE" /\ cmd' = "IDLE" /\ Sane =>
               \E n \in 0 .. sbdReg.LEN :
                 /\ n > 0 => sbdReg.BLK_START + sbdReg.LEN <= nr_blocks
                 /\ ram' = [a \in RamAddr |->
                              IF cmd = "RD" /\ a \in sbdReg.PA .. sbdReg.PA + n - 1
                              THEN FromImage(a) ELSE ram[a]]
                 /\ image' = [b \in 1 .. Len(image) |->
                                IF cmd = "WR" /\ b - 1 \in sbdReg.BLK_START .. sbdReg.BLK_START + n - 1
                                THEN ram[sbdReg.PA + b - 1 - sbdReg.BLK_START] ELSE image[b]]
                 /\ spilled' = spilled
<1>1. BoardInit => Inv
  BY RegsInit, SbdInvInit
<1>2. Inv /\ [BoardNext]_boardVars => Inv'
  BY RegsStep, SbdInvStep
<1>3. Inv /\ [BoardNext]_boardVars => [Copies]_sbdVars
  BY CommandCopies DEF Copied
<1> HIDE DEF Inv
<1> QED BY <1>1, <1>2, <1>3, PTL DEF BoardSpec, CopiesTheRequest
=============================================================================
