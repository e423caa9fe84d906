----------------------------- MODULE PciListProofs -----------------------------
(***************************************************************************)
(* Proofs about PciList for any number of devices and addresses: types,    *)
(* references, and what the first pass of my_exit prints.                  *)
(*                                                                         *)
(* None of the properties is inductive.  References balance only because   *)
(* the walk of my_init never meets a device twice, and the first pass is   *)
(* complete only because a walk that has come to d has dealt with every    *)
(* device before d: CursorInv says where each walk stands, WalkInv what it *)
(* has done so far.                                                        *)
(***************************************************************************)
EXTENDS PciList, WellFoundedInduction, TLAPS

\* Between walks the cursor is NULL; during one it is on the bus.
CursorInv ==
  /\ pc \in {"out", "register", "in", "exit2", "exit3"} => pdev = 0
  /\ pc # "failed" => pdev \in bus \cup {0}
  /\ pc \in {"alloc", "compare1", "compare2"} => pdev # 0
  /\ pc = "out" => pdev_list = {}
  /\ \A d \in bus \cup pdev_list : addr[d] \in Addrs
  /\ pdev # 0 => addr[pdev] \in Addrs

\* What my_init has saved when its walk has come to pdev.
SavedInv ==
  /\ pc = "init" => /\ \A q \in pdev_list : q <= pdev
                    /\ \A d \in resident : d <= pdev => d \in pdev_list
  /\ pc = "alloc" => /\ \A q \in pdev_list : q < pdev
                     /\ \A d \in resident : d < pdev => d \in pdev_list
  /\ pc \in {"register", "in", "exit1", "compare1"} => resident \subseteq pdev_list
  /\ pc \in {"init", "alloc"} => \A d \in bus : addr[d] \in seen
  /\ \A q \in pdev_list : addr[q] \in seen
  /\ resident \subseteq bus /\ waiting \subseteq bus

\* What the first pass has printed when its walk has come to pdev.
PrintedInv ==
  /\ pc = "exit1" => \A d \in waiting : d <= pdev /\ addr[d] \notin seen => d \in plugged
  /\ pc = "compare1" => \A d \in waiting : d < pdev /\ addr[d] \notin seen => d \in plugged

WalkInv == SavedInv /\ PrintedInv
IInv == TypeOK /\ ReferencesBalanced /\ CursorInv /\ WalkInv /\ PluggedInReported

--------------------------------------------------------------------------------
\* pci_get_device returns the next device on the bus, or NULL after the last.
LEMMA AfterNext ==
  ASSUME bus \subseteq Devs, NEW from \in Devs \cup {0}
  PROVE  \/ After(from) = 0 /\ \A d \in bus : d <= from
         \/ /\ After(from) \in bus /\ After(from) > from
            /\ \A d \in bus : d > from => After(from) <= d
<1> DEFINE later == {d \in bus : d > from}
<1>0. bus \subseteq Nat /\ from \in Nat
  BY PciAssumption DEF Devs
<1>1. CASE later = {}
  BY <1>0, <1>1 DEF After
<1>2. CASE later # {}
  <2>1. later \subseteq Nat
    BY <1>0
  <2>2. PICK x \in later : \A y \in later : ~ (<<y, x>> \in OpToRel(<, Nat))
    BY <1>2, <2>1, NatLessThanWellFounded, WFMin
  <2>3. \A y \in later : x <= y
    <3>1. OpToRel(<, Nat) = {ss \in Nat \X Nat : ss[1] < ss[2]}
      BY Zenon DEF OpToRel
    <3>2. \A y \in later : <<y, x>> \notin {ss \in Nat \X Nat : ss[1] < ss[2]}
      BY <2>2, <3>1, Zenon
    <3>3. SUFFICES ASSUME NEW y \in later, y < x PROVE FALSE
      BY <2>1
    <3>4. <<y, x>> \in Nat \X Nat /\ <<y, x>>[1] = y /\ <<y, x>>[2] = x
      BY <2>1
    <3> QED
      BY <3>2, <3>3, <3>4
  <2>4. After(from) = CHOOSE d \in later : \A e \in later : d <= e
    BY <1>2 DEF After
  <2>5. After(from) \in later /\ \A e \in later : After(from) <= e
    BY <2>3, <2>4, Zenon
  <2> QED
    BY <2>5, <1>0
<1> QED
  BY <1>1, <1>2

\* The counts after pci_get_device, by the place of each device.
LEMMA GetCounts ==
  ASSUME TypeOK, NEW from \in Devs \cup {0}, pdev = from, ReferencesBalanced, GetDevice(from),
         UNCHANGED <<bus, pdev_list>>
  PROVE  ReferencesBalanced' /\ refs' \in [Devs -> Nat] /\ pdev' \in bus \cup {0}
<1>1. pdev' \in bus \cup {0} /\ bus \subseteq Devs
  BY AfterNext DEF TypeOK, GetDevice
<1>2. \A d \in Devs : /\ refs'[d] = refs[d] + B(d = pdev') - B(d = pdev)
                      /\ refs[d] = B(d \in bus) + B(d \in pdev_list) + B(d = pdev)
  BY DEF GetDevice, ReferencesBalanced
<1>3. \A d \in Devs : refs'[d] = B(d \in bus) + B(d \in pdev_list) + B(d = pdev')
  BY <1>2 DEF B
<1>4. \A d \in Devs : refs'[d] \in Nat
  BY <1>3 DEF B
<1> QED
  BY <1>1, <1>3, <1>4 DEF GetDevice, ReferencesBalanced

--------------------------------------------------------------------------------
\* At first there is no device and no module.
LEMMA IInit == Init => IInv
<1> SUFFICES ASSUME Init PROVE IInv
  OBVIOUS
<1>1. 0 \notin Devs
  BY PciAssumption DEF Devs
<1>2. TypeOK
  BY PciAssumption DEF Init, TypeOK, Labels
<1>3. ReferencesBalanced
  BY <1>1 DEF Init, ReferencesBalanced, B
<1>4. CursorInv /\ WalkInv /\ PluggedInReported
  BY DEF Init, CursorInv, WalkInv, SavedInv, PrintedInv, PluggedInReported
<1> QED
  BY <1>2, <1>3, <1>4 DEF IInv

\* A device comes or goes.
LEMMA BusSteps ==
  ASSUME IInv, NEW d \in Devs, (\E a \in Addrs : Plug(d, a)) \/ Unplug(d)
  PROVE  IInv'
<1> USE PciAssumption DEF IInv
<1>1. ASSUME NEW a \in Addrs, Plug(d, a) PROVE IInv'
  <2>1. d \notin bus /\ d \notin pdev_list /\ d # pdev
    BY <1>1 DEF Plug, CursorInv, Devs
  <2>2. TypeOK'
    BY <1>1 DEF Plug, TypeOK, passVars, outVars
  <2>3. ReferencesBalanced'
    BY <1>1, <2>1 DEF Plug, ReferencesBalanced, TypeOK, B
  <2>4. CursorInv'
    BY <1>1, <2>1 DEF Plug, CursorInv, TypeOK
  <2>5. SavedInv'
    BY <1>1, <2>1 DEF Plug, WalkInv, SavedInv, TypeOK
  <2>6. PrintedInv' /\ PluggedInReported'
    BY <1>1, <2>1 DEF Plug, WalkInv, SavedInv, PrintedInv, PluggedInReported, TypeOK, passVars, outVars
  <2> QED
    BY <2>2, <2>3, <2>4, <2>5, <2>6 DEF WalkInv
<1>2. ASSUME Unplug(d) PROVE IInv'
  <2>0. refs[d] \in Nat \ {0}
    BY <1>2 DEF Unplug, ReferencesBalanced, B
  <2>1. TypeOK'
    BY <1>2, <2>0 DEF Unplug, TypeOK, passVars, outVars
  <2>2. ReferencesBalanced'
    BY <1>2 DEF Unplug, ReferencesBalanced, TypeOK, B
  <2>3. CursorInv'
    BY <1>2 DEF Unplug, CursorInv
  <2>4. WalkInv' /\ PluggedInReported'
    BY <1>2 DEF Unplug, WalkInv, SavedInv, PrintedInv, PluggedInReported, passVars, outVars
  <2> QED
    BY <2>1, <2>2, <2>3, <2>4
<1> QED
  BY <1>1, <1>2

\* A step of my_init.
LEMMA InitSteps ==
  ASSUME IInv, Load \/ InitWalk \/ InitAdd \/ InitFail \/ InitRegister
  PROVE  IInv'
<1> USE DEF IInv
<1>0. bus \subseteq Devs /\ pdev \in Devs \cup {0} /\ 0 \notin Devs /\ Devs \subseteq Nat
  BY PciAssumption DEF TypeOK, Devs
<1>1. CASE Load
  <2>1. TypeOK' /\ ReferencesBalanced'
    BY <1>1 DEF Load, Goto, TypeOK, Labels, ReferencesBalanced, CursorInv, busVars, passVars
  <2>2. CursorInv' /\ PrintedInv' /\ PluggedInReported'
    BY <1>1 DEF Load, Goto, CursorInv, WalkInv, PrintedInv, PluggedInReported, busVars
  <2>3. SavedInv'
    BY <1>0, <1>1 DEF Load, Goto, WalkInv, SavedInv, busVars
  <2> QED
    BY <2>1, <2>2, <2>3 DEF WalkInv
<1>2. CASE InitWalk
  <2>0. UNCHANGED <<bus, addr, pdev_list, todo, p, found, plugged, removed, resident, seen, waiting>>
    BY <1>2 DEF InitWalk, busVars, passVars, outVars, history
  <2>1. ReferencesBalanced' /\ refs' \in [Devs -> Nat] /\ pdev' \in bus \cup {0}
    BY <1>0, <1>2, <2>0, GetCounts DEF InitWalk
  <2>2. TypeOK'
    BY <1>0, <1>2, <2>0, <2>1 DEF InitWalk, Goto, TypeOK, Labels
  <2>3. CursorInv'
    BY <1>0, <1>2, <2>0, <2>1, AfterNext DEF InitWalk, Goto, GetDevice, CursorInv
  <2>4. \/ pdev' = 0 /\ pc' = "register" /\ \A d \in bus : d <= pdev
        \/ /\ pdev' \in bus /\ pdev' > pdev /\ pc' = "alloc"
           /\ \A d \in bus : d > pdev => pdev' <= d
    BY <1>0, <1>2, AfterNext DEF InitWalk, Goto, GetDevice
  <2>5. SavedInv'
    <3>1. pc = "init" /\ pdev_list \subseteq Nat /\ resident \subseteq Nat /\ pdev \in Nat
      BY <1>0, <1>2 DEF InitWalk, Goto, TypeOK
    <3>2. CASE pdev' = 0 /\ pc' = "register" /\ \A d \in bus : d <= pdev
      BY <2>0, <3>1, <3>2 DEF WalkInv, SavedInv
    <3>3. CASE /\ pdev' \in bus /\ pdev' > pdev /\ pc' = "alloc"
               /\ \A d \in bus : d > pdev => pdev' <= d
      <4>1. pdev' \in Nat
        BY <1>0, <3>3
      <4>2. \A q \in pdev_list : q < pdev'
        BY <3>1, <3>3, <4>1 DEF WalkInv, SavedInv
      <4>3. \A d \in resident : d < pdev' => d \in pdev_list
        BY <3>1, <3>3, <4>1 DEF WalkInv, SavedInv
      <4> QED
        BY <2>0, <3>1, <3>3, <4>2, <4>3 DEF WalkInv, SavedInv
    <3> QED
      BY <2>4, <3>2, <3>3
  <2>6. PrintedInv' /\ PluggedInReported'
    BY <1>2, <2>0 DEF InitWalk, Goto, PrintedInv, PluggedInReported
  <2> QED
    BY <2>1, <2>2, <2>3, <2>5, <2>6 DEF WalkInv
<1>3. CASE InitAdd
  <2>0. UNCHANGED <<bus, addr, pdev, todo, p, found, plugged, removed, resident, seen, waiting>>
    BY <1>3 DEF InitAdd, busVars, passVars, outVars, history
  <2>1. pc = "alloc" /\ pdev \in Devs /\ pdev \notin pdev_list
    BY <1>0, <1>3 DEF InitAdd, Goto, CursorInv, WalkInv, SavedInv
  <2>2. TypeOK'
    BY <1>3, <2>0, <2>1 DEF InitAdd, Goto, TypeOK, Labels
  <2>3. ReferencesBalanced'
    BY <1>3, <2>0, <2>1 DEF InitAdd, TypeOK, ReferencesBalanced, B
  <2>4. CursorInv' /\ PrintedInv' /\ PluggedInReported'
    BY <1>3, <2>0, <2>1 DEF InitAdd, Goto, CursorInv, PrintedInv, PluggedInReported
  <2>5. SavedInv'
    BY <1>0, <1>3, <2>0, <2>1 DEF InitAdd, Goto, WalkInv, SavedInv, CursorInv, TypeOK
  <2> QED
    BY <2>2, <2>3, <2>4, <2>5 DEF WalkInv
<1>4. CASE InitFail \/ InitRegister
  <2>0. UNCHANGED <<bus, addr, refs, pdev_list, pdev, todo, p, found, plugged, removed, resident,
                    seen, waiting>>
    BY <1>4 DEF InitFail, InitRegister, busVars, passVars, outVars, history
  <2>1. TypeOK' /\ ReferencesBalanced'
    BY <1>4, <2>0 DEF InitFail, InitRegister, Goto, TypeOK, Labels, ReferencesBalanced
  <2>2. CursorInv' /\ WalkInv' /\ PluggedInReported'
    BY <1>4, <2>0 DEF InitFail, InitRegister, Goto, CursorInv, WalkInv, SavedInv, PrintedInv,
                      PluggedInReported
  <2> QED
    BY <2>1, <2>2
<1> QED
  BY <1>1, <1>2, <1>3, <1>4

\* A step of the first pass of my_exit.
LEMMA FirstPassSteps ==
  ASSUME IInv, Unload \/ Exit1Walk \/ Exit1Compare
  PROVE  IInv'
<1> USE DEF IInv
<1>0. bus \subseteq Devs /\ pdev \in Devs \cup {0} /\ 0 \notin Devs /\ Devs \subseteq Nat
  BY PciAssumption DEF TypeOK, Devs
<1>1. CASE Unload
  <2>0. UNCHANGED <<bus, addr, refs, pdev_list, todo, p, found, plugged, removed, resident, seen>>
    BY <1>1 DEF Unload, busVars, passVars, outVars
  <2>1. TypeOK' /\ ReferencesBalanced' /\ CursorInv'
    BY <1>1, <2>0 DEF Unload, Goto, TypeOK, Labels, ReferencesBalanced, CursorInv
  <2>2. SavedInv' /\ PluggedInReported'
    BY <1>1, <2>0 DEF Unload, Goto, WalkInv, SavedInv, PluggedInReported
  <2>3. PrintedInv'
    BY <1>0, <1>1 DEF Unload, Goto, PrintedInv
  <2> QED
    BY <2>1, <2>2, <2>3 DEF WalkInv
<1>2. CASE Exit1Walk
  <2>0. UNCHANGED <<bus, addr, pdev_list, p, found, plugged, removed, resident, seen, waiting>>
    BY <1>2 DEF Exit1Walk, busVars, outVars, history
  <2>1. ReferencesBalanced' /\ refs' \in [Devs -> Nat] /\ pdev' \in bus \cup {0}
    BY <1>0, <1>2, <2>0, GetCounts DEF Exit1Walk
  <2>2. TypeOK'
    BY <1>0, <1>2, <2>0, <2>1 DEF Exit1Walk, Goto, TypeOK, Labels
  <2>3. CursorInv'
    BY <1>0, <1>2, <2>0, <2>1, AfterNext DEF Exit1Walk, Goto, GetDevice, CursorInv
  <2>4. SavedInv'
    BY <1>2, <2>0 DEF Exit1Walk, Goto, WalkInv, SavedInv
  <2>5. \/ pdev' = 0 /\ pc' = "exit2" /\ \A d \in bus : d <= pdev
        \/ /\ pdev' \in bus /\ pdev' > pdev /\ pc' = "compare1"
           /\ \A d \in bus : d > pdev => pdev' <= d
    BY <1>0, <1>2, AfterNext DEF Exit1Walk, Goto, GetDevice
  <2>6. PrintedInv' /\ PluggedInReported'
    <3>1. pc = "exit1" /\ waiting \subseteq bus /\ bus \subseteq Nat /\ pdev \in Nat
      BY <1>0, <1>2 DEF Exit1Walk, Goto, WalkInv, SavedInv
    <3>2. CASE pdev' = 0 /\ pc' = "exit2" /\ \A d \in bus : d <= pdev
      BY <2>0, <3>1, <3>2 DEF WalkInv, PrintedInv, PluggedInReported
    <3>3. CASE /\ pdev' \in bus /\ pdev' > pdev /\ pc' = "compare1"
               /\ \A d \in bus : d > pdev => pdev' <= d
      <4>1. \A d \in waiting : d < pdev' => d <= pdev
        BY <3>1, <3>3
      <4> QED
        BY <2>0, <3>1, <3>3, <4>1 DEF WalkInv, PrintedInv, PluggedInReported
    <3> QED
      BY <2>5, <3>2, <3>3
  <2> QED
    BY <2>1, <2>2, <2>3, <2>4, <2>6 DEF WalkInv
<1>3. CASE Exit1Compare
  <2>0. UNCHANGED <<bus, addr, refs, pdev_list, pdev, todo, p, found, removed, resident, seen,
                    waiting>>
    BY <1>3 DEF Exit1Compare, busVars, passVars, history
  <2>1. pc = "compare1" /\ pc' = "exit1" /\ pdev \in Devs
    BY <1>0, <1>3 DEF Exit1Compare, Goto, CursorInv
  <2>2. TypeOK' /\ ReferencesBalanced' /\ CursorInv'
    BY <1>3, <2>0, <2>1 DEF Exit1Compare, TypeOK, Labels, ReferencesBalanced, CursorInv
  <2>3. SavedInv'
    BY <2>0, <2>1 DEF WalkInv, SavedInv
  <2>4. PrintedInv'
    BY <1>0, <1>3, <2>0, <2>1 DEF Exit1Compare, WalkInv, SavedInv, PrintedInv, TypeOK
  <2>5. PluggedInReported'
    BY <1>3, <2>0, <2>1 DEF Exit1Compare, WalkInv, SavedInv, PluggedInReported
  <2> QED
    BY <2>2, <2>3, <2>4, <2>5 DEF WalkInv
<1> QED
  BY <1>1, <1>2, <1>3

\* A step of the second pass, or of the cleanup after it.
LEMMA LaterSteps ==
  ASSUME IInv, Exit2Entry \/ Exit2Walk \/ Exit2Compare \/ Exit3
  PROVE  IInv'
<1> USE DEF IInv
<1>0. bus \subseteq Devs /\ pdev \in Devs \cup {0} /\ 0 \notin Devs /\ Devs \subseteq Nat
  BY PciAssumption DEF TypeOK, Devs
<1>1. CASE Exit2Entry
  <2>0. UNCHANGED <<bus, addr, refs, pdev_list, pdev, todo, plugged, removed, resident, seen, waiting>>
    BY <1>1 DEF Exit2Entry, busVars, outVars, history
  <2>1. pc = "exit2" /\ pc' \in {"walk2", "exit3"} /\ p' \in Devs \cup {0} /\ found' \in BOOLEAN
    BY <1>1 DEF Exit2Entry, Goto, TypeOK
  <2> QED
    BY <1>0, <2>0, <2>1 DEF TypeOK, Labels, ReferencesBalanced, CursorInv, WalkInv, SavedInv,
       PrintedInv, PluggedInReported
<1>2. CASE Exit2Walk
  <2>0. UNCHANGED <<bus, addr, pdev_list, p, found, plugged, removed, resident, seen, waiting>>
    BY <1>2 DEF Exit2Walk, busVars, outVars, history
  <2>1. ReferencesBalanced' /\ refs' \in [Devs -> Nat] /\ pdev' \in bus \cup {0}
    BY <1>0, <1>2, <2>0, GetCounts DEF Exit2Walk
  <2>2. TypeOK'
    BY <1>0, <1>2, <2>0, <2>1 DEF Exit2Walk, Goto, TypeOK, Labels
  <2>3. CursorInv'
    BY <1>0, <1>2, <2>0, <2>1, AfterNext DEF Exit2Walk, Goto, GetDevice, CursorInv
  <2>4. WalkInv' /\ PluggedInReported'
    BY <1>2, <2>0 DEF Exit2Walk, Goto, WalkInv, SavedInv, PrintedInv, PluggedInReported
  <2> QED
    BY <2>1, <2>2, <2>3, <2>4
<1>3. CASE Exit2Compare
  <2>0. UNCHANGED <<bus, addr, refs, pdev_list, pdev, todo, p, plugged, resident, seen, waiting>>
    BY <1>3 DEF Exit2Compare, busVars, history
  <2>1. pc = "compare2" /\ pc' = "walk2" /\ found' \in BOOLEAN /\ pdev \in Devs
    BY <1>0, <1>3 DEF Exit2Compare, Goto, CursorInv
  <2>2. removed' \subseteq Devs
    BY <1>3, <2>1 DEF Exit2Compare, TypeOK
  <2> QED
    BY <2>0, <2>1, <2>2 DEF TypeOK, Labels, ReferencesBalanced, CursorInv, WalkInv, SavedInv,
       PrintedInv, PluggedInReported
<1>4. CASE Exit3
  <2>0. UNCHANGED <<bus, addr, pdev, todo, p, found, plugged, removed, resident, seen, waiting>>
    BY <1>4 DEF Exit3, busVars, passVars, outVars, history
  <2>1. pc = "exit3" /\ pc' \in {"exit3", "out"} /\ pdev_list' \subseteq pdev_list
        /\ (pc' = "out" => pdev_list' = {})
    BY <1>4 DEF Exit3, Goto
  <2>2. ReferencesBalanced' /\ refs' \in [Devs -> Nat]
    <3>1. CASE UNCHANGED <<refs, pdev_list>>
      BY <2>0, <3>1 DEF ReferencesBalanced, TypeOK
    <3>2. ASSUME NEW q \in pdev_list, refs' = [refs EXCEPT ![q] = @ - 1],
                 pdev_list' = pdev_list \ {q}
          PROVE  ReferencesBalanced' /\ refs' \in [Devs -> Nat]
      <4>1. q \in Devs /\ refs[q] \in Nat \ {0}
        BY DEF TypeOK, ReferencesBalanced, B
      <4> QED
        BY <2>0, <3>2, <4>1 DEF ReferencesBalanced, TypeOK, B
    <3> QED
      BY <1>4, <3>1, <3>2 DEF Exit3
  <2>3. TypeOK' /\ CursorInv'
    BY <2>0, <2>1, <2>2 DEF TypeOK, Labels, CursorInv
  <2>4. WalkInv' /\ PluggedInReported'
    BY <2>0, <2>1 DEF WalkInv, SavedInv, PrintedInv, PluggedInReported
  <2> QED
    BY <2>2, <2>3, <2>4
<1> QED
  BY <1>1, <1>2, <1>3, <1>4

\* IInv is inductive.
LEMMA INext == IInv /\ [Next]_vars => IInv'
<1> SUFFICES ASSUME IInv, [Next]_vars PROVE IInv'
  OBVIOUS
<1>1. CASE UNCHANGED vars
  BY <1>1 DEF vars, busVars, passVars, outVars, history, IInv, TypeOK, ReferencesBalanced,
              CursorInv, WalkInv, SavedInv, PrintedInv, PluggedInReported
<1> QED
  BY <1>1, BusSteps, InitSteps, FirstPassSteps, LaterSteps DEF Next, Module

--------------------------------------------------------------------------------
\* The variables keep their types; in particular no reference count of a
\* pci_dev ever falls below zero.
THEOREM TypeCorrect == Spec => []TypeOK
BY IInit, INext, PTL DEF Spec, IInv

\* my_init and my_exit keep a reference on every device they have saved or
\* stand on, and my_exit leaves none behind, for any number of devices.
THEOREM Balanced == Spec => []ReferencesBalanced
BY IInit, INext, PTL DEF Spec, IInv

\* The first pass of my_exit prints no device that was there all along and
\* misses none that came after my_init, for any number of devices that come
\* and go during both.
THEOREM FirstPassRight == Spec => []PluggedInReported
BY IInit, INext, PTL DEF Spec, IInv
================================================================================
