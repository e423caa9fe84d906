--------------------------------- MODULE PciList ---------------------------------
(***************************************************************************)
(* The list of PCI devices of 08/pb173.c: my_init saves every device it    *)
(* finds, with a reference, and my_exit compares the saved list with what  *)
(* is there now, twice, before it gives the references back.  Devices come *)
(* and go while either runs.                                               *)
(*                                                                         *)
(* A pci_dev is named by the number under which the bus registered it, so  *)
(* the order of the bus is the order of the numbers; 0 is NULL.  Printing  *)
(* is recorded in plugged and removed.  my_probe and my_remove of the same *)
(* file touch none of this and are not here.                               *)
(*                                                                         *)
(* Outside src/ and modelled from how the code uses it: the bus, and       *)
(* pci_get_device, which drops the reference on the device it starts from  *)
(* and takes one on the device it returns.  The iterators of those kernels *)
(* do not survive that the device they stand on leaves the bus; that case  *)
(* is left out.                                                            *)
(***************************************************************************)
EXTENDS Integers

CONSTANTS MaxDevs,   \* bound: devices that are ever registered
          Addrs,     \* addresses domain:bus:slot.func
          NoAddr     \* address of a device that has not been there yet

ASSUME PciAssumption == MaxDevs \in Nat /\ NoAddr \notin Addrs

Devs == 1 .. MaxDevs

VARIABLES
  bus,        \* devices in the system
  addr,       \* addr[d]: where d is, or was
  refs,       \* refs[d]: references on d, the bus's own included
  pdev_list,  \* devices my_init saved
  pdev,       \* the device the current walk stands on
  pc,         \* where my_init or my_exit is
  todo,       \* entries the second pass has not finished
  p,          \* the entry the second pass looks for
  found,      \* has it met that entry's address
  plugged,    \* printed by the first pass
  removed,    \* printed by the second pass
  resident,   \* history: on the bus since my_init began
  seen,       \* history: addresses in use during the walk of my_init
  waiting     \* history: on the bus since my_exit began

busVars  == <<bus, addr>>
passVars == <<todo, p, found>>
outVars  == <<plugged, removed>>
history  == <<resident, seen, waiting>>
vars == <<busVars, refs, pdev_list, pdev, pc, passVars, outVars, history>>

B(cond) == IF cond THEN 1 ELSE 0
Goto(from, to) == pc = from /\ pc' = to

Init ==
  /\ bus = {} /\ addr = [d \in Devs |-> NoAddr] /\ refs = [d \in Devs |-> 0]
  /\ pdev_list = {} /\ pdev = 0 /\ pc = "out"
  /\ todo = {} /\ p = 0 /\ found = FALSE
  /\ plugged = {} /\ removed = {} /\ resident = {} /\ seen = {} /\ waiting = {}

--------------------------------------------------------------------------------
(* The bus: a device appears at a free address, a device disappears. *)
Plug(d, a) ==
  /\ addr[d] = NoAddr /\ \A e \in Devs : e < d => addr[e] # NoAddr
  /\ \A e \in bus : addr[e] # a
  /\ bus' = bus \cup {d} /\ addr' = [addr EXCEPT ![d] = a]
  /\ refs' = [refs EXCEPT ![d] = 1]
  /\ seen' = IF pc \in {"init", "alloc"} THEN seen \cup {a} ELSE seen
  /\ UNCHANGED <<pdev_list, pdev, pc, passVars, outVars, resident, waiting>>

Unplug(d) ==
  /\ d \in bus /\ (d = pdev => pc = "failed")
  /\ bus' = bus \ {d} /\ refs' = [refs EXCEPT ![d] = @ - 1]
  /\ resident' = resident \ {d} /\ waiting' = waiting \ {d}
  /\ UNCHANGED <<addr, pdev_list, pdev, pc, passVars, outVars, seen>>

\* pci_get_device(PCI_ANY_ID, PCI_ANY_ID, from)
After(from) == LET later == {d \in bus : d > from}
               IN  IF later = {} THEN 0 ELSE CHOOSE d \in later : \A e \in later : d <= e

GetDevice(from) ==
  /\ pdev' = After(from)
  /\ refs' = [d \in Devs |-> refs[d] + B(d = pdev') - B(d = from)]

--------------------------------------------------------------------------------
(* my_init *)
Load ==
  /\ Goto("out", "init")
  /\ pdev_list' = {} /\ pdev' = 0 /\ plugged' = {} /\ removed' = {}
  /\ resident' = bus /\ seen' = {addr[d] : d \in bus}
  /\ UNCHANGED <<busVars, refs, passVars, waiting>>

InitWalk ==
  /\ Goto("init", IF After(pdev) = 0 THEN "register" ELSE "alloc")
  /\ GetDevice(pdev)
  /\ UNCHANGED <<busVars, pdev_list, passVars, outVars, history>>

\* Mutant of InitAdd: the list keeps the pointer without a reference.
InitAddBare ==
  /\ Goto("alloc", "init")
  /\ pdev_list' = pdev_list \cup {pdev}
  /\ UNCHANGED <<busVars, refs, pdev, passVars, outVars, history>>

\* kmalloc, pci_dev_get, list_add
InitAdd ==
  /\ Goto("alloc", "init")
  /\ refs' = [refs EXCEPT ![pdev] = @ + 1]
  /\ pdev_list' = pdev_list \cup {pdev}
  /\ UNCHANGED <<busVars, pdev, passVars, outVars, history>>

\* kmalloc or pci_register_driver fails: the list and its references stay.
InitFail ==
  /\ pc \in {"alloc", "register"} /\ pc' = "failed"
  /\ UNCHANGED <<busVars, refs, pdev_list, pdev, passVars, outVars, history>>

InitRegister ==
  /\ Goto("register", "in")
  /\ UNCHANGED <<busVars, refs, pdev_list, pdev, passVars, outVars, history>>

--------------------------------------------------------------------------------
(* my_exit, first pass: what is on the bus and not in the list. *)
Unload ==
  /\ Goto("in", "exit1")
  /\ pdev' = 0 /\ waiting' = bus
  /\ UNCHANGED <<busVars, refs, pdev_list, passVars, outVars, resident, seen>>

Exit1Walk ==
  /\ Goto("exit1", IF After(pdev) = 0 THEN "exit2" ELSE "compare1")
  /\ GetDevice(pdev)
  /\ todo' = pdev_list
  /\ UNCHANGED <<busVars, pdev_list, p, found, outVars, history>>

\* Mutant of Exit1Compare: only the head of the list, the newest entry, is
\* compared.
Exit1CompareHead ==
  /\ Goto("compare1", "exit1")
  /\ plugged' = IF \E q \in pdev_list : /\ addr[q] = addr[pdev]
                                       /\ \A r \in pdev_list : r <= q
                THEN plugged ELSE plugged \cup {pdev}
  /\ UNCHANGED <<busVars, refs, pdev_list, pdev, passVars, removed, history>>

\* Mutant of Exit1Compare: the loop drops the reference the next
\* pci_get_device drops as well.
Exit1ComparePut ==
  /\ Goto("compare1", "exit1")
  /\ refs' = [refs EXCEPT ![pdev] = @ - 1]
  /\ UNCHANGED <<busVars, pdev_list, pdev, passVars, outVars, history>>

Exit1Compare ==
  /\ Goto("compare1", "exit1")
  /\ plugged' = IF \E q \in pdev_list : addr[q] = addr[pdev] THEN plugged
                ELSE plugged \cup {pdev}
  /\ UNCHANGED <<busVars, refs, pdev_list, pdev, passVars, removed, history>>

(* Second pass: for each entry of the list a walk over the bus. *)
Exit2Entry ==
  /\ \/ \E q \in todo : Goto("exit2", "walk2") /\ p' = q /\ found' = FALSE
     \/ todo = {} /\ Goto("exit2", "exit3") /\ UNCHANGED <<p, found>>
  /\ UNCHANGED <<busVars, refs, pdev_list, pdev, todo, outVars, history>>

\* Mutant of Exit2Walk: an entry is finished only when it was found.
Exit2WalkAgain ==
  /\ Goto("walk2", IF After(pdev) = 0 THEN "exit2" ELSE "compare2")
  /\ GetDevice(pdev)
  /\ todo' = IF pdev' = 0 /\ found THEN todo \ {p} ELSE todo
  /\ UNCHANGED <<busVars, pdev_list, p, found, outVars, history>>

Exit2Walk ==
  /\ Goto("walk2", IF After(pdev) = 0 THEN "exit2" ELSE "compare2")
  /\ GetDevice(pdev)
  /\ todo' = IF pdev' = 0 THEN todo \ {p} ELSE todo
  /\ UNCHANGED <<busVars, pdev_list, p, found, outVars, history>>

\* Prints the device the walk stands on until it has met the entry's address.
Exit2Compare ==
  /\ Goto("compare2", "walk2")
  /\ found' = (found \/ addr[pdev] = addr[p])
  /\ removed' = IF found' THEN removed ELSE removed \cup {pdev}
  /\ UNCHANGED <<busVars, refs, pdev_list, pdev, todo, p, plugged, history>>

\* pci_dev_put, list_del and kfree for each entry, then pci_unregister_driver.
Exit3 ==
  /\ \/ \E q \in pdev_list : /\ refs' = [refs EXCEPT ![q] = @ - 1]
                             /\ pdev_list' = pdev_list \ {q}
                             /\ Goto("exit3", "exit3")
     \/ pdev_list = {} /\ Goto("exit3", "out") /\ UNCHANGED <<refs, pdev_list>>
  /\ UNCHANGED <<busVars, pdev, passVars, outVars, history>>

--------------------------------------------------------------------------------
Module == \/ InitWalk \/ InitAdd \/ InitFail \/ InitRegister
          \/ Exit1Walk \/ Exit1Compare \/ Exit2Entry \/ Exit2Walk \/ Exit2Compare \/ Exit3

Next == \/ \E d \in Devs, a \in Addrs : Plug(d, a)
        \/ \E d \in Devs : Unplug(d)
        \/ Load \/ Unload \/ Module

Spec == Init /\ [][Next]_vars

\* insmod and rmmod run to their end once they have begun.
FairSpec == Spec /\ WF_vars(Module)

--------------------------------------------------------------------------------
Labels == {"out", "init", "alloc", "register", "in", "failed", "exit1", "compare1",
           "exit2", "walk2", "compare2", "exit3"}

TypeOK ==
  /\ bus \subseteq Devs /\ addr \in [Devs -> Addrs \cup {NoAddr}] /\ refs \in [Devs -> Nat]
  /\ pdev_list \subseteq Devs /\ pdev \in Devs \cup {0} /\ pc \in Labels
  /\ todo \subseteq Devs /\ p \in Devs \cup {0} /\ found \in BOOLEAN
  /\ plugged \subseteq Devs /\ removed \subseteq Devs
  /\ resident \subseteq Devs /\ seen \subseteq Addrs /\ waiting \subseteq Devs

\* Every reference has its owner, and every owner its reference: the bus, the
\* saved list, and the walk that stands on a device.  So no saved or visited
\* pci_dev is freed while my_init or my_exit looks at it, however devices come
\* and go, and after my_exit nothing keeps a removed device alive.
ReferencesBalanced ==
  \A d \in Devs : refs[d] = B(d \in bus) + B(d \in pdev_list) + B(d = pdev)

\* "no match found - device was plugged in": the first pass never prints a
\* device that has been there since before my_init, and when it has ended it has
\* printed every device at an address my_init found empty, if the device was
\* there for the whole pass.
PluggedInReported ==
  /\ plugged \cap resident = {}
  /\ pc \in {"exit2", "walk2", "compare2", "exit3"}
       => \A d \in waiting : addr[d] \notin seen => d \in plugged

\* my_init and my_exit end although the bus changes under their walks.
WalksEnd == pc \notin {"out", "in", "failed"} ~> pc \in {"out", "in", "failed"}
================================================================================
