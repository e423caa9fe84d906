----------------------------- MODULE HomeworkModule -----------------------------
(***************************************************************************)
(* 06/pb173.c as one kernel module: my_init and my_exit, the two memory    *)
(* devices, and my_device (MyDevice) as long as its node is there.  The    *)
(* buffer devices of the same file keep to themselves (BufferDevice).      *)
(*                                                                         *)
(* my_init registers the nodes, then makes the debugfs entries, then       *)
(* allocates the buffer the memory devices hand out, then writes a string  *)
(* to each of its pages; every node can be used from its registration on.  *)
(* Outside src/: the module core (an open file pins the module that .owner *)
(* names, a module being removed refuses opens), the misc core and         *)
(* simple_read_from_buffer and simple_write_to_buffer, which fail with     *)
(* -EFAULT on the NULL they are given before vzalloc.                      *)
(***************************************************************************)
EXTENDS MyDevice, Sequences

CONSTANTS Users,     \* threads that use the memory devices
          NPages,    \* bound: pages of the buffer; 5120 in the code
          MayFail    \* bound: may vzalloc fail

ASSUME ModuleAssumption == NPages \in Nat \ {0} /\ MayFail \in BOOLEAN

VARIABLES stage,     \* how far my_init or my_exit is
          at,        \* the next node to register or remove, or page to fill
          nodes,     \* the registered misc devices
          debug,     \* the debugfs entries exist
          mem,       \* what mem_buffer points to
          text,      \* text[p]: what page p of the buffer holds, zeroed at first
          file,      \* file[u]: the memory device user u has open
          buf        \* buf[u]: the buffer the running call of u was given

lifeVars == <<stage, at, nodes, debug, mem>>
userVars == <<file, buf>>
modVars  == <<vars, lifeVars, text, userVars>>

Nodes == <<"my_device", "my_read_device", "my_write_device", "my_mem_read_device",
           "my_mem_write_device">>
Coming == {"register", "debugfs", "vzalloc", "fill"}
Going  == {"deregister", "undebugfs", "vfree"}
Usable == Coming \cup {"live"}      \* the module core lets a node be opened

ModInit ==
  /\ Init
  /\ stage = "absent" /\ at = 1 /\ nodes = {} /\ debug = FALSE /\ mem = "null"
  /\ text = [p \in 1 .. NPages |-> "zero"]
  /\ file = [u \in Users |-> "none"] /\ buf = [u \in Users |-> "none"]

Becomes(from, to) == stage = from /\ stage' = to

--------------------------------------------------------------------------------
(* my_init; the module's variables start anew with every load. *)
Load ==
  /\ Becomes("absent", "register") /\ at' = 1 /\ mem' = "null"
  /\ count' = 0 /\ char_count' = 4
  /\ UNCHANGED <<count_lock, char_lock, mode, pc, call, reply, nodes, debug, text, userVars>>

InitRegister ==
  /\ Becomes("register", IF at = Len(Nodes) THEN "debugfs" ELSE "register")
  /\ nodes' = nodes \cup {Nodes[at]} /\ at' = IF at = Len(Nodes) THEN 1 ELSE at + 1
  /\ UNCHANGED <<vars, debug, mem, text, userVars>>

InitDebugfs ==
  /\ Becomes("debugfs", "vzalloc") /\ debug' = TRUE
  /\ UNCHANGED <<vars, at, nodes, mem, text, userVars>>

InitAlloc ==
  /\ Becomes("vzalloc", "fill") /\ mem' = "buffer"
  /\ UNCHANGED <<vars, at, nodes, debug, text, userVars>>

\* -ENOMEM: the module is thrown away and nothing is taken back.
InitFail ==
  /\ MayFail /\ Becomes("vzalloc", "failed")
  /\ UNCHANGED <<vars, at, nodes, debug, mem, text, userVars>>

\* Mutant of InitFill: the loop ends one page early.
InitFillShort ==
  /\ Becomes("fill", IF at >= NPages - 1 THEN "live" ELSE "fill")
  /\ text' = [text EXCEPT ![at] = "string"] /\ at' = IF at >= NPages - 1 THEN 1 ELSE at + 1
  /\ UNCHANGED <<vars, nodes, debug, mem, userVars>>

InitFill ==
  /\ Becomes("fill", IF at = NPages THEN "live" ELSE "fill")
  /\ text' = [text EXCEPT ![at] = "string"] /\ at' = IF at = NPages THEN 1 ELSE at + 1
  /\ UNCHANGED <<vars, nodes, debug, mem, userVars>>

--------------------------------------------------------------------------------
(* my_exit: runs once no file is open and, with that, no call under way. *)
Pinned == \/ \E f \in Files : mode[f] # "closed"
          \/ \E t \in Tasks : pc[t] # "idle"
          \/ \E u \in Users : file[u] # "none"

\* Mutant of Unload: the file operations name no owner.
UnloadAnyway ==
  /\ Becomes("live", "deregister")
  /\ UNCHANGED <<vars, at, nodes, debug, mem, text, userVars>>

Unload ==
  /\ ~Pinned /\ Becomes("live", "deregister")
  /\ UNCHANGED <<vars, at, nodes, debug, mem, text, userVars>>

\* Mutant of ExitDeregister: the last node is forgotten.
ExitDeregisterShort ==
  /\ Becomes("deregister", IF at = Len(Nodes) - 1 THEN "undebugfs" ELSE "deregister")
  /\ nodes' = nodes \ {Nodes[at]} /\ at' = IF at = Len(Nodes) - 1 THEN 1 ELSE at + 1
  /\ UNCHANGED <<vars, debug, mem, text, userVars>>

ExitDeregister ==
  /\ Becomes("deregister", IF at = Len(Nodes) THEN "undebugfs" ELSE "deregister")
  /\ nodes' = nodes \ {Nodes[at]} /\ at' = IF at = Len(Nodes) THEN 1 ELSE at + 1
  /\ UNCHANGED <<vars, debug, mem, text, userVars>>

ExitDebugfs ==
  /\ Becomes("undebugfs", "vfree") /\ debug' = FALSE
  /\ UNCHANGED <<vars, at, nodes, mem, text, userVars>>

ExitFree ==
  /\ Becomes("vfree", "absent") /\ mem' = "freed"
  /\ text' = [p \in 1 .. NPages |-> "zero"]
  /\ UNCHANGED <<vars, at, nodes, debug, userVars>>

--------------------------------------------------------------------------------
(* The memory devices *)
MemOpen(u, node) ==
  /\ stage \in Usable /\ node \in nodes
  /\ file[u] = "none" /\ file' = [file EXCEPT ![u] = node]
  /\ UNCHANGED <<vars, lifeVars, text, buf>>

\* mem_buf_read and mem_buf_write pass on mem_buffer as it is now.
MemCall(u) ==
  /\ file[u] # "none" /\ buf[u] = "none" /\ buf' = [buf EXCEPT ![u] = mem]
  /\ UNCHANGED <<vars, lifeVars, text, file>>

\* The helper copies from or to the buffer without a lock, or fails on NULL.
MemReturn(u) ==
  /\ buf[u] # "none" /\ buf' = [buf EXCEPT ![u] = "none"]
  /\ IF file[u] = "my_mem_write_device" /\ buf[u] = "buffer"
       THEN \E p \in 1 .. NPages : text' = [text EXCEPT ![p] = "user"]
       ELSE UNCHANGED text
  /\ UNCHANGED <<vars, lifeVars, file>>

MemClose(u) ==
  /\ file[u] # "none" /\ buf[u] = "none" /\ file' = [file EXCEPT ![u] = "none"]
  /\ UNCHANGED <<vars, lifeVars, text, buf>>

--------------------------------------------------------------------------------
(* my_device, with the conditions the rest of the module puts on its calls. *)
DeviceCall(t) ==
  /\ \/ stage \in Usable /\ "my_device" \in nodes /\ \E f \in Files : Open(t, f)
     \/ (\E f \in Files : mode[f] = "open") /\ FileCall(t)
     \/ debug /\ stage # "failed" /\ ReadCounter(t)
     \/ stage # "failed" /\ Step(t)
  /\ UNCHANGED <<lifeVars, text, userVars>>

Module == \/ Load \/ InitRegister \/ InitDebugfs \/ InitAlloc \/ InitFail \/ InitFill
          \/ Unload \/ ExitDeregister \/ ExitDebugfs \/ ExitFree

\* What follows a failed my_init is not defined: the code of the nodes is gone.
ModNext ==
  /\ stage # "failed"
  /\ \/ Module
     \/ \E u \in Users : \/ \E node \in {"my_mem_read_device", "my_mem_write_device"} :
                              MemOpen(u, node)
                         \/ MemCall(u) \/ MemReturn(u) \/ MemClose(u)
     \/ \E t \in Tasks : DeviceCall(t)

ModSpec == ModInit /\ [][ModNext]_modVars

--------------------------------------------------------------------------------
ModTypeOK ==
  /\ TypeOK
  /\ stage \in Usable \cup Going \cup {"absent", "failed"} /\ at \in 1 .. NPages + Len(Nodes)
  /\ nodes \subseteq {Nodes[i] : i \in 1 .. Len(Nodes)} /\ debug \in BOOLEAN
  /\ mem \in {"null", "buffer", "freed"} /\ text \in [1 .. NPages -> {"zero", "string", "user"}]
  /\ file \in [Users -> {"none", "my_mem_read_device", "my_mem_write_device"}]
  /\ buf \in [Users -> {"none", "null", "buffer"}]

\* A call on a memory device works on the buffer it was given until it returns,
\* although my_exit frees the buffer and no lock is taken; and no thread is in
\* the module's code when my_exit runs.
NoCallOutlivesModule ==
  /\ \A u \in Users : buf[u] = "buffer" => mem = "buffer"
  /\ stage \in Going \cup {"absent"} => ~Pinned

\* A module that is gone, if its my_init had succeeded, leaves neither a node
\* nor a debugfs entry nor its buffer, and its count of opened instances is back
\* at zero.
UnloadsClean ==
  stage = "absent" => nodes = {} /\ ~debug /\ mem # "buffer" /\ count = 0

\* Once my_init has returned every page shows its address string or what a user
\* wrote to it: the loop misses no page, however the users' writes fall.
PagesLabelled == stage = "live" => \A p \in 1 .. NPages : text[p] # "zero"
================================================================================
