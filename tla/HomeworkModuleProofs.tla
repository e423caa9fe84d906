-------------------------- MODULE HomeworkModuleProofs --------------------------
(***************************************************************************)
(* Proofs about HomeworkModule, for every number of threads, files, users  *)
(* and pages: a call never outlives the module or its buffer, unloading    *)
(* leaves nothing behind, my_init labels every page, and my_device keeps   *)
(* its promise although the module is loaded and unloaded around it.       *)
(***************************************************************************)
EXTENDS HomeworkModule, MyDeviceProofs

\* Where the loops of my_init and my_exit are.
StageInv ==
  /\ stage \in Usable \cup Going \cup {"absent", "failed"}
  /\ at \in Nat
  /\ stage \in {"register", "deregister"} => at \in 1 .. Len(Nodes)
  /\ stage = "fill" => at \in 1 .. NPages
  /\ stage \notin {"register", "deregister", "fill"} => at = 1

\* A node or an entry is gone when my_exit has passed it.
NodeInv ==
  /\ nodes \subseteq {Nodes[i] : i \in 1 .. Len(Nodes)} /\ debug \in BOOLEAN
  /\ stage = "deregister" => nodes \subseteq {Nodes[i] : i \in at .. Len(Nodes)}
  /\ stage \in {"undebugfs", "vfree", "absent"} => nodes = {}
  /\ stage \in {"vfree", "absent", "register", "debugfs"} => ~debug

\* The buffer is there from vzalloc to vfree, and its pages are filled in order.
BufferInv ==
  /\ mem \in {"null", "buffer", "freed"}
  /\ mem = "buffer" <=> stage \in {"fill", "live"} \cup Going
  /\ mem = "freed" => stage = "absent"
  /\ text \in [1 .. NPages -> {"zero", "string", "user"}]
  /\ stage = "fill" => \A p \in 1 .. at - 1 : text[p] # "zero"
  /\ stage = "live" => \A p \in 1 .. NPages : text[p] # "zero"

\* A call has its file open, and a file keeps my_exit away.
CallInv ==
  /\ file \in [Users -> {"none", "my_mem_read_device", "my_mem_write_device"}]
  /\ buf \in [Users -> {"none", "null", "buffer"}]
  /\ \A u \in Users : /\ buf[u] # "none" => file[u] # "none"
                      /\ buf[u] = "buffer" => mem = "buffer"
  /\ stage \in Going \cup {"absent"} => ~Pinned

ModInv == DevInv /\ StageInv /\ NodeInv /\ BufferInv /\ CallInv

--------------------------------------------------------------------------------
\* The five nodes.
NodeNames == {"my_device", "my_read_device", "my_write_device", "my_mem_read_device",
              "my_mem_write_device"}

\* The table of nodes holds each of them once.
LEMMA NodeTable ==
  /\ Len(Nodes) = 5 /\ {Nodes[i] : i \in 1 .. Len(Nodes)} = NodeNames
  /\ \A i \in 1 .. Len(Nodes) : Nodes[i] \in NodeNames
<1>1. Len(Nodes) = 5
  BY DEF Nodes
<1>2. \A i \in 1 .. 5 : i = 1 \/ i = 2 \/ i = 3 \/ i = 4 \/ i = 5
  OBVIOUS
<1>3. \A i \in 1 .. 5 : Nodes[i] \in NodeNames
  BY <1>2 DEF Nodes, NodeNames
<1>4. NodeNames \subseteq {Nodes[i] : i \in 1 .. 5}
  BY DEF Nodes, NodeNames
<1> QED
  BY <1>1, <1>3, <1>4

\* Before the first load there is nothing.
LEMMA ModInitInv == ModInit => ModInv /\ Abstract!Init
<1> SUFFICES ASSUME ModInit PROVE ModInv /\ Abstract!Init
  OBVIOUS
<1>1. DevInv /\ Abstract!Init
  BY DevInit DEF ModInit
<1>2. StageInv /\ NodeInv /\ BufferInv
  BY DEF ModInit, StageInv, NodeInv, BufferInv, Usable, Going
<1>3. CallInv
  BY DEF ModInit, Init, CallInv, Pinned
<1> QED
  BY <1>1, <1>2, <1>3 DEF ModInv

\* While no call of my_device is under way and no file open, none is counted.
LEMMA NothingOpened ==
  ASSUME DevInv, ~Pinned
  PROVE  Opened = {} /\ count = 0
<1>1. Opened = {}
  BY DEF Pinned, Opened
<1> QED
  BY <1>1, FS_EmptySet DEF DevInv, CountInv

\* my_init starts the counter and the length anew; the counter was at zero.
LEMMA Loads ==
  ASSUME ModInv, Load
  PROVE  ModInv' /\ Abstract!SetLength(4)
<1>1. /\ stage = "absent" /\ stage' = "register" /\ at' = 1 /\ mem' = "null"
      /\ count' = 0 /\ char_count' = 4
      /\ UNCHANGED <<count_lock, char_lock, mode, pc, call, reply, nodes, debug, text, file, buf>>
  BY DEF Load, Becomes, userVars
<1>2. ~Pinned
  BY <1>1 DEF ModInv, CallInv
<1>3. count = 0 /\ count' = count /\ Opened' = Opened /\ Answered' = Answered
  BY <1>1, <1>2, NothingOpened DEF ModInv, Opened, Answered
<1>4. DevInv'
  <2>1. TypeOK'
    BY <1>1 DEF ModInv, DevInv, TypeOK
  <2>2. LockInv' /\ FileInv' /\ CountInv'
    BY <1>1, <1>3 DEF ModInv, DevInv, LockInv, FileInv, CountInv
  <2>3. LocalInv'
    BY <1>1, <1>3 DEF ModInv, DevInv, LocalInv
  <2> QED
    BY <2>1, <2>2, <2>3 DEF DevInv
<1>5. StageInv' /\ NodeInv' /\ BufferInv'
  BY <1>1, NodeTable DEF ModInv, StageInv, NodeInv, BufferInv, Usable, Coming, Going
<1>6. CallInv'
  BY <1>1, <1>2 DEF ModInv, CallInv, BufferInv, Going, Pinned
<1> QED
  BY <1>1, <1>3, <1>4, <1>5, <1>6 DEF ModInv, Abstract!SetLength

\* A step that leaves my_device alone is none of DeviceState.
LEMMA DeviceStands ==
  ASSUME DevInv, UNCHANGED vars
  PROVE  DevInv' /\ UNCHANGED Abstract!vars
<1>1. UNCHANGED <<count, count_lock, char_count, char_lock, mode, pc, call, reply>>
  BY DEF vars
<1>2. Opened' = Opened /\ Answered' = Answered
  BY <1>1 DEF Opened, Answered
<1> QED
  BY <1>1, <1>2 DEF DevInv, TypeOK, LockInv, FileInv, LocalInv, CountInv, Abstract!vars

\* my_init registers, allocates and fills in order.
LEMMA Loading ==
  ASSUME ModInv, InitRegister \/ InitDebugfs \/ InitAlloc \/ InitFail \/ InitFill
  PROVE  StageInv' /\ NodeInv' /\ BufferInv' /\ CallInv'
<1> USE ModuleAssumption, NodeTable
    DEF ModInv, StageInv, NodeInv, BufferInv, CallInv, Usable, Coming, Going, Becomes
<1>1. UNCHANGED <<mode, pc, file, buf>> /\ Pinned' = Pinned
  BY DEF InitRegister, InitDebugfs, InitAlloc, InitFail, InitFill, userVars, vars, Pinned
<1>2. CASE InitRegister
  BY <1>1, <1>2 DEF InitRegister
<1>3. CASE InitDebugfs
  BY <1>1, <1>3 DEF InitDebugfs
<1>4. CASE InitAlloc
  BY <1>1, <1>4 DEF InitAlloc
<1>5. CASE InitFail
  BY <1>1, <1>5 DEF InitFail
<1>6. CASE InitFill
  BY <1>1, <1>6 DEF InitFill
<1> QED
  BY <1>2, <1>3, <1>4, <1>5, <1>6

\* my_exit begins with nothing open and undoes what my_init did.
LEMMA Unloading ==
  ASSUME ModInv, Unload \/ ExitDeregister \/ ExitDebugfs \/ ExitFree
  PROVE  StageInv' /\ NodeInv' /\ BufferInv' /\ CallInv'
<1> USE ModuleAssumption, NodeTable
    DEF ModInv, StageInv, NodeInv, BufferInv, CallInv, Usable, Coming, Going, Becomes
<1>1. UNCHANGED <<mode, pc, file, buf>> /\ Pinned' = Pinned
  BY DEF Unload, ExitDeregister, ExitDebugfs, ExitFree, userVars, vars, Pinned
<1>2. CASE Unload
  BY <1>1, <1>2 DEF Unload
<1>3. CASE ExitDeregister
  BY <1>1, <1>3 DEF ExitDeregister
<1>4. CASE ExitDebugfs
  BY <1>1, <1>4 DEF ExitDebugfs
<1>5. CASE ExitFree
  BY <1>1, <1>5 DEF ExitFree, Pinned
<1> QED
  BY <1>2, <1>3, <1>4, <1>5

\* The memory devices: an open file keeps the buffer, a call has the file.
LEMMA MemSteps ==
  ASSUME ModInv, NEW u \in Users,
         \/ \E node \in {"my_mem_read_device", "my_mem_write_device"} : MemOpen(u, node)
         \/ MemCall(u) \/ MemReturn(u) \/ MemClose(u)
  PROVE  StageInv' /\ NodeInv' /\ BufferInv' /\ CallInv'
<1>1. UNCHANGED <<stage, at, nodes, debug, mem, mode, pc>>
  BY DEF MemOpen, MemCall, MemReturn, MemClose, lifeVars, vars
<1>2. StageInv' /\ NodeInv'
  BY <1>1 DEF ModInv, StageInv, NodeInv
<1>3. CASE \E node \in {"my_mem_read_device", "my_mem_write_device"} : MemOpen(u, node)
  BY <1>1, <1>2, <1>3 DEF MemOpen, ModInv, BufferInv, CallInv, Usable, Coming, Going
<1>4. CASE MemCall(u)
  <2>1. /\ file[u] # "none" /\ buf' = [buf EXCEPT ![u] = mem] /\ UNCHANGED <<text, file>>
        /\ Pinned' = Pinned
    BY <1>1, <1>4 DEF MemCall, Pinned
  <2>2. mem \in {"null", "buffer"}
    BY <2>1 DEF ModInv, BufferInv, CallInv, Pinned
  <2> QED
    BY <1>1, <1>2, <2>1, <2>2 DEF ModInv, BufferInv, CallInv
<1>5. CASE MemReturn(u)
  <2>1. buf' = [buf EXCEPT ![u] = "none"] /\ file' = file /\ Pinned' = Pinned
    BY <1>1, <1>5 DEF MemReturn, Pinned
  <2>2. /\ text' \in [1 .. NPages -> {"zero", "string", "user"}]
        /\ \A p \in 1 .. NPages : text'[p] = "zero" => text[p] = "zero"
    BY <1>5 DEF MemReturn, ModInv, BufferInv
  <2>3. BufferInv'
    <3>1. stage = "fill" => \A p \in 1 .. at - 1 : p \in 1 .. NPages
      BY ModuleAssumption DEF ModInv, StageInv
    <3>2. stage = "fill" => \A p \in 1 .. at - 1 : text'[p] # "zero"
      BY <2>2, <3>1 DEF ModInv, BufferInv
    <3> QED
      BY <1>1, <2>2, <3>2 DEF ModInv, BufferInv
  <2> QED
    BY <1>1, <1>2, <2>1, <2>3 DEF ModInv, CallInv
<1>6. CASE MemClose(u)
  <2>1. buf[u] = "none" /\ file' = [file EXCEPT ![u] = "none"] /\ UNCHANGED <<text, buf>>
    BY <1>6 DEF MemClose
  <2>2. Pinned' => Pinned
    BY <1>1, <2>1 DEF Pinned, ModInv, CallInv
  <2> QED
    BY <1>1, <1>2, <2>1, <2>2 DEF ModInv, BufferInv, CallInv
<1> QED
  BY <1>3, <1>4, <1>5, <1>6

\* A call of my_device is made and goes on only while the module is there.
LEMMA DeviceSteps ==
  ASSUME ModInv, NEW t \in Tasks, DeviceCall(t)
  PROVE  StageInv' /\ NodeInv' /\ BufferInv' /\ CallInv' /\ Next
<1>1. UNCHANGED <<stage, at, nodes, debug, mem, text, file, buf>>
  BY DEF DeviceCall, lifeVars, userVars
<1>2. StageInv' /\ NodeInv' /\ BufferInv'
  BY <1>1 DEF ModInv, StageInv, NodeInv, BufferInv
<1>3. Next
  BY DEF DeviceCall, Next
<1>4. ASSUME stage \in Going \cup {"absent"}
      PROVE  ~Pinned'
  <2>1. ~Pinned
    BY <1>4 DEF ModInv, CallInv
  <2>2. ~Step(t)
    BY <2>1 DEF Pinned, Step, OpenLock, OpenIncr, OpenUnlock, RelLock, RelDecr, RelUnlock,
                IoctlSet, GetCopy, GetReturn, Move, Return
  <2>3. ReadCounter(t)
    BY <1>4, <2>1, <2>2 DEF DeviceCall, Pinned, Going, Usable, Coming
  <2> QED
    BY <1>1, <2>1, <2>3 DEF ReadCounter, Pinned, countVars
<1>5. CallInv'
  BY <1>1, <1>4 DEF ModInv, CallInv
<1> QED
  BY <1>2, <1>3, <1>5

--------------------------------------------------------------------------------
\* Every step of the module keeps the invariant and is a step of DeviceState.
LEMMA ModNextInv ==
  ASSUME ModInv, [ModNext]_modVars
  PROVE  ModInv' /\ [Abstract!Next]_Abstract!vars
<1>1. CASE Load
  <2>1. 4 \in Abstract!Lengths
    BY DEF Abstract!Lengths
  <2> QED
    BY <1>1, <2>1, Loads DEF Abstract!Next
<1>2. CASE InitRegister \/ InitDebugfs \/ InitAlloc \/ InitFail \/ InitFill
  <2>1. UNCHANGED vars
    BY <1>2 DEF InitRegister, InitDebugfs, InitAlloc, InitFail, InitFill
  <2> QED
    BY <1>2, <2>1, Loading, DeviceStands DEF ModInv
<1>3. CASE Unload \/ ExitDeregister \/ ExitDebugfs \/ ExitFree
  <2>1. UNCHANGED vars
    BY <1>3 DEF Unload, ExitDeregister, ExitDebugfs, ExitFree
  <2> QED
    BY <1>3, <2>1, Unloading, DeviceStands DEF ModInv
<1>4. ASSUME NEW u \in Users,
             \/ \E node \in {"my_mem_read_device", "my_mem_write_device"} : MemOpen(u, node)
             \/ MemCall(u) \/ MemReturn(u) \/ MemClose(u)
      PROVE  ModInv' /\ [Abstract!Next]_Abstract!vars
  <2>1. UNCHANGED vars
    BY <1>4 DEF MemOpen, MemCall, MemReturn, MemClose
  <2> QED
    BY <1>4, <2>1, MemSteps, DeviceStands DEF ModInv
<1>5. ASSUME NEW t \in Tasks, DeviceCall(t)
      PROVE  ModInv' /\ [Abstract!Next]_Abstract!vars
  BY <1>5, DeviceSteps, DevNext DEF ModInv
<1>6. CASE UNCHANGED modVars
  <2>1. UNCHANGED vars /\ UNCHANGED <<stage, at, nodes, debug, mem, text, file, buf, mode, pc>>
    BY <1>6 DEF modVars, lifeVars, userVars, vars
  <2>2. StageInv' /\ NodeInv' /\ BufferInv' /\ CallInv'
    BY <2>1 DEF ModInv, StageInv, NodeInv, BufferInv, CallInv, Pinned
  <2> QED
    BY <2>1, <2>2, DeviceStands DEF ModInv
<1> QED
  BY <1>1, <1>2, <1>3, <1>4, <1>5, <1>6 DEF ModNext, Module

\* The invariant holds of every behaviour.
LEMMA ModInvariant == ModSpec => []ModInv
<1>1. ModInv /\ [ModNext]_modVars => ModInv'
  BY ModNextInv
<1> QED
  BY <1>1, ModInitInv, PTL DEF ModSpec

\* The module is well typed: in particular no call is ever given the buffer of
\* an earlier life of the module.
THEOREM ModTypes == ModSpec => []ModTypeOK
<1>1. ModInv => ModTypeOK
  BY ModuleAssumption, NodeTable DEF ModInv, DevInv, StageInv, NodeInv, BufferInv, CallInv, ModTypeOK
<1> QED
  BY <1>1, ModInvariant, PTL

\* No call outlives the buffer it was given or the module, for every number of
\* threads, files and users, although no lock protects the buffer.
THEOREM CallsEndFirst == ModSpec => []NoCallOutlivesModule
<1>1. ModInv => NoCallOutlivesModule
  BY DEF ModInv, CallInv, NoCallOutlivesModule
<1> QED
  BY <1>1, ModInvariant, PTL

\* However it was used, an unloaded module leaves nothing behind, and its
\* counter is back at zero.
THEOREM LeavesNothing == ModSpec => []UnloadsClean
<1>1. ModInv => UnloadsClean
  <2> SUFFICES ASSUME ModInv, stage = "absent"
               PROVE  nodes = {} /\ ~debug /\ mem # "buffer" /\ count = 0
    BY DEF UnloadsClean
  <2>1. nodes = {} /\ ~debug /\ mem # "buffer" /\ ~Pinned
    BY DEF ModInv, NodeInv, BufferInv, CallInv, Going
  <2> QED
    BY <2>1, NothingOpened DEF ModInv
<1> QED
  BY <1>1, ModInvariant, PTL

\* my_init leaves no page without its string, for every number of pages and
\* whatever users write meanwhile.
THEOREM FillsEveryPage == ModSpec => []PagesLabelled
<1>1. ModInv => PagesLabelled
  BY DEF ModInv, BufferInv, PagesLabelled
<1> QED
  BY <1>1, ModInvariant, PTL

\* my_device keeps the promise of DeviceState through any number of loads and
\* unloads of the module around it.
THEOREM ModuleRefines == ModSpec => ImplementsDeviceState
<1>1. ModInv /\ [ModNext]_modVars => ModInv' /\ [Abstract!Next]_Abstract!vars
  BY ModNextInv
<1> QED
  BY <1>1, ModInitInv, PTL DEF ModSpec, ImplementsDeviceState, Abstract!Spec

================================================================================
