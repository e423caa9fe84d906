------------------------------- MODULE MmapDevice -------------------------------
(***************************************************************************)
(* The four pages that my_device of 10/homework/pb173.c lets user space    *)
(* map: my_mmap, my_fault, and the life of the pages from my_init to       *)
(* my_exit, which allocates them after the node is registered and frees    *)
(* them before it is removed.                                              *)
(*                                                                         *)
(* Outside src/ and modelled from how the driver uses it: the module core  *)
(* (an open file pins the module that .owner names, a module being removed *)
(* refuses opens, one being loaded does not), the memory manager (an area  *)
(* pins its file; an unmapped page loses the reference it was given; an    *)
(* area may grow without the driver being asked) and page reference        *)
(* counts.  What mprotect may add to an area later is not the driver's     *)
(* decision and is left out, as is the text of the pages.                  *)
(***************************************************************************)
EXTENDS Integers, FiniteSets

CONSTANTS Files,     \* open file descriptions on my_device
          Vmas,      \* memory areas of user processes
          Pgoffs,    \* bound: the page offsets mmap is called with
          MaxLen,    \* bound: the longest area, in pages
          MayFail    \* bound: may __get_free_page fail

ASSUME MmapAssumption ==
  /\ IsFiniteSet(Vmas) /\ "none" \notin Files
  /\ Pgoffs \subseteq Nat /\ MaxLen \in Nat /\ MayFail \in BOOLEAN

VARIABLES stage,     \* how far my_init or my_exit is
          at,        \* the next page my_init allocates or my_exit frees
          mem,       \* mem[i]: what mem1 .. mem4 point to
          refs,      \* refs[i]: references to the page mem_i was given
          fd,        \* fd[f]: user space holds the file open
          vma        \* vma[v]: the area, with the pages mapped in it

vars == <<stage, at, mem, refs, fd, vma>>

Pages  == 1 .. 4
NoPage == 0          \* nothing mapped, or no page found
Junk   == 5          \* what virt_to_page makes of a NULL pointer
NoVma  == [file |-> "none", pgoff |-> 0, len |-> 0, flags |-> {},
           pte |-> [k \in 0 .. MaxLen |-> NoPage]]

Usable == {"alloc", "fill", "live", "stuck"}     \* the node can be opened
Stages == Usable \cup {"absent", "register", "free", "deregister"}
Pinned == \E f \in Files : fd[f] \/ \E v \in Vmas : vma[v].file = f

Init == /\ stage = "absent" /\ at = 1
        /\ mem = [i \in Pages |-> "null"] /\ refs = [i \in Pages |-> 0]
        /\ fd = [f \in Files |-> FALSE] /\ vma = [v \in Vmas |-> NoVma]

--------------------------------------------------------------------------------
(* my_init: the node is there, and usable, before the pages are. *)
Load ==
  /\ stage = "absent" /\ stage' = "register"
  /\ UNCHANGED <<at, mem, refs, fd, vma>>

InitRegister ==
  /\ stage = "register" /\ stage' = "alloc" /\ at' = 1
  /\ UNCHANGED <<mem, refs, fd, vma>>

\* The result of __get_free_page is not looked at.
InitAlloc ==
  /\ stage = "alloc"
  /\ \/ mem' = [mem EXCEPT ![at] = "page"] /\ refs' = [refs EXCEPT ![at] = 1]
     \/ MayFail /\ UNCHANGED <<mem, refs>>
  /\ stage' = IF at = 4 THEN "fill" ELSE "alloc"
  /\ at' = IF at = 4 THEN 1 ELSE at + 1
  /\ UNCHANGED <<fd, vma>>

\* strcpy to the four pages; a NULL one kills insmod and leaves the module.
InitFill ==
  /\ stage = "fill"
  /\ stage' = IF \A i \in Pages : mem[i] = "page" THEN "live" ELSE "stuck"
  /\ UNCHANGED <<at, mem, refs, fd, vma>>

--------------------------------------------------------------------------------
(* my_exit: runs once nothing pins the module. *)
\* Mutant of Unload: my_fops has no .owner.
UnloadAnyway ==
  /\ stage = "live"
  /\ stage' = "free" /\ at' = 1
  /\ UNCHANGED <<mem, refs, fd, vma>>

Unload ==
  /\ stage = "live" /\ ~Pinned
  /\ stage' = "free" /\ at' = 1
  /\ UNCHANGED <<mem, refs, fd, vma>>

\* Mutant of ExitFree: a page is freed twice.
ExitFreeTwice ==
  /\ stage = "free"
  /\ mem' = [mem EXCEPT ![at] = "freed"] /\ refs' = [refs EXCEPT ![at] = @ - 2]
  /\ stage' = IF at = 4 THEN "deregister" ELSE "free"
  /\ at' = IF at = 4 THEN 1 ELSE at + 1
  /\ UNCHANGED <<fd, vma>>

ExitFree ==
  /\ stage = "free"
  /\ mem' = [mem EXCEPT ![at] = "freed"] /\ refs' = [refs EXCEPT ![at] = @ - 1]
  /\ stage' = IF at = 4 THEN "deregister" ELSE "free"
  /\ at' = IF at = 4 THEN 1 ELSE at + 1
  /\ UNCHANGED <<fd, vma>>

\* The next load finds zeroed variables.
ExitDeregister ==
  /\ stage = "deregister" /\ stage' = "absent"
  /\ mem' = [i \in Pages |-> "null"]
  /\ UNCHANGED <<at, refs, fd, vma>>

--------------------------------------------------------------------------------
(* my_open, and close: my_release runs when no area holds the file either. *)
Open(f) ==
  /\ stage \in Usable /\ ~fd[f] /\ \A v \in Vmas : vma[v].file # f
  /\ fd' = [fd EXCEPT ![f] = TRUE]
  /\ UNCHANGED <<stage, at, mem, refs, vma>>

Close(f) ==
  /\ fd[f] /\ fd' = [fd EXCEPT ![f] = FALSE]
  /\ UNCHANGED <<stage, at, mem, refs, vma>>

(* my_mmap *)
\* Mutant of MayMap: only the flags a page needs are looked for.
MayMapWeak(pgoff, len, flags) ==
  /\ len <= 2 /\ pgoff <= 4
  /\ pgoff < 2 => "read" \in flags
  /\ pgoff \in 2 .. 3 => {"read", "write"} \subseteq flags

MayMap(pgoff, len, flags) ==
  /\ len <= 2 /\ pgoff <= 4
  /\ pgoff < 2 => flags = {"read"}
  /\ pgoff \in 2 .. 3 => flags = {"read", "write"}

Mmap(f, v, pgoff, len, flags) ==
  /\ fd[f] /\ vma[v] = NoVma
  /\ MayMap(pgoff, len, flags)
  /\ vma' = [vma EXCEPT ![v] = [NoVma EXCEPT !.file = f, !.pgoff = pgoff, !.len = len,
                                             !.flags = flags]]
  /\ UNCHANGED <<stage, at, mem, refs, fd>>

\* mremap makes the area longer; my_mmap is not called again.
Mremap(v) ==
  /\ vma[v] # NoVma /\ vma[v].len < MaxLen
  /\ vma' = [vma EXCEPT ![v].len = @ + 1]
  /\ UNCHANGED <<stage, at, mem, refs, fd>>

--------------------------------------------------------------------------------
(* my_find_page: mem1 for the first page of the file, and so on. *)
Resolve(i) == IF mem[i] = "null" THEN Junk ELSE i

\* Mutant of my_find_page: the last two tests are swapped, and as both start at
\* PAGE_SIZE the first of them answers for the third page too.
FindPageSwapped(offset) ==
  CASE offset = 0 -> Resolve(1) [] offset = 1 -> Resolve(2) [] offset \in 2 .. 3 -> Resolve(4)
    [] OTHER -> NoPage

my_find_page(offset) == IF offset < 4 THEN Resolve(offset + 1) ELSE NoPage

\* Mutant of Take: get_page is forgotten.
TakeNone(page) == refs

\* get_page; what it does to the page a NULL pointer seems to stand for is unknown.
Take(page) == IF page \in Pages THEN [refs EXCEPT ![page] = @ + 1] ELSE refs

(* my_fault at page k of the area; a page that is not there is SIGBUS. *)
Fault(v, k) ==
  /\ k < vma[v].len /\ vma[v].pte[k] = NoPage
  /\ my_find_page(vma[v].pgoff + k) # NoPage
  /\ vma' = [vma EXCEPT ![v].pte[k] = my_find_page(vma[v].pgoff + k)]
  /\ refs' = Take(my_find_page(vma[v].pgoff + k))
  /\ UNCHANGED <<stage, at, mem, fd>>

\* The places where page i is mapped.
Maps(i) == {p \in Vmas \X (0 .. MaxLen) : vma[p[1]].pte[p[2]] = i}

Munmap(v) ==
  /\ vma[v] # NoVma /\ vma' = [vma EXCEPT ![v] = NoVma]
  /\ refs' = [i \in Pages |-> refs[i] - Cardinality({p \in Maps(i) : p[1] = v})]
  /\ UNCHANGED <<stage, at, mem, fd>>

--------------------------------------------------------------------------------
Module == Load \/ InitRegister \/ InitAlloc \/ InitFill \/ Unload \/ ExitFree \/ ExitDeregister
User   == \/ \E f \in Files : Open(f) \/ Close(f)
          \/ \E f \in Files, v \in Vmas, pgoff \in Pgoffs, len \in 1 .. MaxLen,
                flags \in SUBSET {"read", "write"} : Mmap(f, v, pgoff, len, flags)
          \/ \E v \in Vmas : Mremap(v) \/ Munmap(v) \/ \E k \in 0 .. MaxLen : Fault(v, k)

Next == Module \/ User

Spec == Init /\ [][Next]_vars

--------------------------------------------------------------------------------
Areas == [file : Files \cup {"none"}, pgoff : Nat, len : 0 .. MaxLen,
          flags : SUBSET {"read", "write"}, pte : [0 .. MaxLen -> 0 .. 5]]

TypeOK == /\ stage \in Stages /\ at \in Pages
          /\ mem \in [Pages -> {"null", "page", "freed"}] /\ refs \in [Pages -> Nat]
          /\ fd \in [Files -> BOOLEAN] /\ vma \in [Vmas -> Areas]

\* Every reference to a page is accounted for: one for the driver until my_exit
\* drops it, and one for each place user space has the page mapped, so that
\* neither munmap nor free_page frees a page that is still in use.
ReferencesBalanced ==
  \A i \in Pages :
    refs[i] = (IF mem[i] = "page" THEN 1 ELSE 0) + Cardinality(Maps(i))

\* What user space has mapped is a page the loaded module still owns, whatever
\* order files are closed, areas unmapped and the module unloaded in, although
\* my_exit frees the pages while the node is still registered.
MappedIsOwned ==
  \A v \in Vmas, k \in 0 .. MaxLen : \A i \in Pages : vma[v].pte[k] = i => mem[i] = "page"

\* An area that my_mmap accepts as writable never shows the first two pages,
\* although it looks at the flags of the first page only, lets an offset past
\* the last page through, and is not asked when the area grows.
WritableLastTwo ==
  \A v \in Vmas : "write" \in vma[v].flags =>
    \A k \in 0 .. MaxLen : vma[v].pte[k] \notin {1, 2}

\* Once my_init has returned every fault maps the page that belongs to the
\* offset in the file, so that all who map an offset share one page.
FaultsAgree ==
  [][\A v \in Vmas, k \in 0 .. MaxLen :
       stage = "live" /\ vma'[v].pte[k] \notin {NoPage, vma[v].pte[k]}
         => vma'[v].pte[k] = vma[v].pgoff + k + 1]_vars
================================================================================
