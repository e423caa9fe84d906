---------------------------- MODULE MmapDeviceProofs ----------------------------
(***************************************************************************)
(* Proofs about MmapDevice for any number of files and areas, any length   *)
(* of an area and any allocation that fails.                               *)
(*                                                                         *)
(* The properties are about what is mapped; why they hold is the life of   *)
(* the module.  Life says that whoever has a file or an area keeps the     *)
(* module in a stage in which no page is freed, and Staged what the four   *)
(* pointers are in each stage.  The count of references then needs one     *)
(* fact about sets for each of my_fault and munmap.                        *)
(***************************************************************************)
EXTENDS MmapDevice, FiniteSetTheorems, TLAPS

Types == /\ stage \in Stages /\ at \in Pages
         /\ mem \in [Pages -> {"null", "page", "freed"}] /\ refs \in [Pages -> Int]
         /\ fd \in [Files -> BOOLEAN] /\ vma \in [Vmas -> Areas]

\* A file or an area keeps the module usable; an area without a file is empty.
Life == /\ \A f \in Files : fd[f] => stage \in Usable
        /\ \A v \in Vmas : vma[v].file # "none" => stage \in Usable
        /\ \A v \in Vmas : vma[v].file = "none" => vma[v] = NoVma

\* What the pointers are in each stage.
Staged == /\ stage \in {"absent", "register"} => \A i \in Pages : mem[i] = "null"
          /\ stage \in Usable => \A i \in Pages : mem[i] # "freed"
          /\ stage = "alloc" => \A i \in Pages : i >= at => mem[i] = "null"
          /\ stage = "live" => \A i \in Pages : mem[i] = "page"
          /\ stage = "free" => \A i \in Pages : mem[i] = IF i < at THEN "freed" ELSE "page"
          /\ stage = "deregister" => \A i \in Pages : mem[i] = "freed"

\* A mapped page is the one of its offset, and one that the driver owns.
Placed == \A v \in Vmas, k \in 0 .. MaxLen :
            vma[v].pte[k] \in Pages => /\ mem[vma[v].pte[k]] = "page"
                                       /\ vma[v].pte[k] = vma[v].pgoff + k + 1

\* A writable area starts at the third page or later.
Granted == \A v \in Vmas : "write" \in vma[v].flags => vma[v].pgoff >= 2

IInv == Types /\ Life /\ Staged /\ Placed /\ Granted /\ ReferencesBalanced

--------------------------------------------------------------------------------
\* The places where a page is mapped are finitely many.
LEMMA MapsFinite == \A i : IsFiniteSet(Maps(i)) /\ Cardinality(Maps(i)) \in Nat
<1>1. IsFiniteSet(0 .. MaxLen)
  BY FS_Interval, MmapAssumption
<1>2. IsFiniteSet(Vmas \X (0 .. MaxLen))
  BY <1>1, FS_Product, MmapAssumption
<1> TAKE i
<1>3. Maps(i) \in SUBSET (Vmas \X (0 .. MaxLen))
  BY DEF Maps
<1>4. IsFiniteSet(Maps(i))
  BY <1>2, <1>3, FS_Subset
<1> QED
  BY <1>4, FS_CardinalityType

\* An empty area has its type.
LEMMA NoVmaType == NoVma \in Areas /\ NoVma.file = "none" /\ NoVma.flags = {}
                   /\ \A k \in 0 .. MaxLen : NoVma.pte[k] = NoPage
<1>1. [k \in 0 .. MaxLen |-> NoPage] \in [0 .. MaxLen -> 0 .. 5]
  BY DEF NoPage
<1> QED
  BY <1>1, MmapAssumption DEF NoVma, Areas

\* Nothing is mapped before the first load.
LEMMA IInit == Init => IInv
<1> SUFFICES ASSUME Init PROVE IInv
  OBVIOUS
<1>1. Types
  BY NoVmaType DEF Init, Types, Stages, Pages
<1>2. Life /\ Staged /\ Granted
  BY NoVmaType DEF Init, Life, Staged, Granted, Usable
<1>3. \A v \in Vmas, k \in 0 .. MaxLen : vma[v].pte[k] = 0
  BY NoVmaType DEF Init, NoPage
<1>4. Placed
  BY <1>3 DEF Placed, Pages
<1>5. \A i \in Pages : Maps(i) = {}
  BY <1>3 DEF Maps, Pages
<1>6. ReferencesBalanced
  BY <1>5, FS_EmptySet DEF Init, ReferencesBalanced
<1> QED
  BY <1>1, <1>2, <1>4, <1>6 DEF IInv

\* The steps of the module touch no file and no area.
LEMMA ModuleSteps ==
  ASSUME IInv, Module
  PROVE  IInv'
<1> USE DEF IInv
<1>0. fd' = fd /\ vma' = vma
  BY DEF Module, Load, InitRegister, InitAlloc, InitFill, Unload, ExitFree, ExitDeregister
<1>1. Granted' /\ \A i : Maps(i)' = Maps(i)
  BY <1>0 DEF Granted, Maps
<1>2. CASE Load \/ InitRegister \/ InitFill
  <2>1. mem' = mem /\ refs' = refs
    BY <1>2 DEF Load, InitRegister, InitFill
  <2>2. Types'
    BY <1>0, <1>2, <2>1 DEF Types, Load, InitRegister, InitFill, Stages, Usable, Pages
  <2>3. Life'
    BY <1>0, <1>2 DEF Life, Load, InitRegister, InitFill, Usable
  <2>4. Staged'
    <3>1. CASE Load \/ InitRegister
      BY <2>1, <3>1 DEF Staged, Load, InitRegister, Usable
    <3>2. CASE InitFill
      BY <2>1, <3>2 DEF Staged, InitFill, Usable
    <3> QED
      BY <1>2, <3>1, <3>2
  <2>5. Placed' /\ ReferencesBalanced'
    BY <1>0, <1>1, <2>1 DEF Placed, ReferencesBalanced
  <2> QED
    BY <1>1, <2>2, <2>3, <2>4, <2>5
<1>3. CASE InitAlloc
  <2>1. mem[at] = "null" /\ at \in Pages
    BY <1>3 DEF InitAlloc, Staged, Types, Pages
  <2>2. \/ mem' = [mem EXCEPT ![at] = "page"] /\ refs' = [refs EXCEPT ![at] = 1]
        \/ mem' = mem /\ refs' = refs
    BY <1>3 DEF InitAlloc
  <2>3. stage' \in {"alloc", "fill"} /\ at' = IF at = 4 THEN 1 ELSE at + 1
    BY <1>3 DEF InitAlloc
  <2>4. Types'
    BY <1>0, <2>1, <2>2, <2>3 DEF Types, Stages, Usable, Pages
  <2>5. Life'
    BY <1>0, <2>3 DEF Life, Usable
  <2>6. Staged'
    <3>1. \A i \in Pages : mem'[i] # "freed"
      BY <1>3, <2>2 DEF InitAlloc, Staged, Types, Usable
    <3>2. stage' = "alloc" => \A i \in Pages : i >= at' => mem'[i] = "null"
      BY <1>3, <2>1, <2>2 DEF InitAlloc, Staged, Types, Pages
    <3> QED
      BY <2>3, <3>1, <3>2 DEF Staged
  <2>7. Placed'
    BY <1>0, <2>1, <2>2 DEF Placed, Types
  <2>8. \A p \in Maps(at) : FALSE
    BY <2>1 DEF Maps, Placed
  <2>9. Cardinality(Maps(at)) = 0
    <3>1. Maps(at) = {}
      BY <2>8
    <3> QED
      BY <3>1, FS_EmptySet
  <2>10. ReferencesBalanced'
    BY <1>1, <2>1, <2>2, <2>9, MapsFinite DEF ReferencesBalanced, Types
  <2> QED
    BY <1>1, <2>4, <2>5, <2>6, <2>7, <2>10
<1>4. CASE Unload
  <2>1. mem' = mem /\ refs' = refs /\ stage = "live" /\ stage' = "free" /\ at' = 1
    BY <1>4 DEF Unload
  <2>2. Types'
    BY <1>0, <2>1 DEF Types, Stages, Pages
  <2>3. \A v \in Vmas : vma[v].file = "none"
    BY <1>4 DEF Unload, Pinned, Types, Areas
  <2>4. Life'
    BY <1>0, <1>4, <2>3 DEF Life, Unload, Pinned
  <2>5. Staged'
    BY <2>1 DEF Staged, Pages, Usable
  <2>6. Placed' /\ ReferencesBalanced'
    BY <1>0, <1>1, <2>1 DEF Placed, ReferencesBalanced
  <2> QED
    BY <1>1, <2>2, <2>4, <2>5, <2>6
<1>5. CASE ExitFree \/ ExitDeregister
  <2>1. \A v \in Vmas : vma[v] = NoVma
    BY <1>5 DEF ExitFree, ExitDeregister, Life, Usable
  <2>2. \A i \in Pages : Maps(i) = {}
    BY <2>1, NoVmaType DEF Maps, NoPage, Pages
  <2>3. \A i \in Pages : Cardinality(Maps(i)) = 0
    BY <2>2, FS_EmptySet
  <2>4. Placed'
    BY <1>0, <2>1, NoVmaType DEF Placed, NoPage, Pages
  <2>5. Life'
    BY <1>0, <1>5, <2>1, NoVmaType DEF Life, ExitFree, ExitDeregister, Usable
  <2>6. CASE ExitFree
    <3>1. /\ stage = "free" /\ mem' = [mem EXCEPT ![at] = "freed"]
          /\ refs' = [refs EXCEPT ![at] = @ - 1]
          /\ stage' = (IF at = 4 THEN "deregister" ELSE "free")
          /\ at' = IF at = 4 THEN 1 ELSE at + 1
      BY <2>6 DEF ExitFree
    <3>2. mem[at] = "page" /\ at \in Pages
      BY <3>1 DEF Staged, Types, Pages
    <3>3. Types'
      BY <1>0, <3>1 DEF Types, Stages, Pages
    <3>4. Staged'
      BY <3>1 DEF Staged, Types, Pages, Usable
    <3>5. ReferencesBalanced'
      BY <1>1, <2>3, <3>1, <3>2 DEF ReferencesBalanced, Types
    <3> QED
      BY <1>1, <2>4, <2>5, <3>3, <3>4, <3>5
  <2>7. CASE ExitDeregister
    <3>1. /\ stage = "deregister" /\ stage' = "absent" /\ at' = at /\ refs' = refs
          /\ mem' = [i \in Pages |-> "null"]
      BY <2>7 DEF ExitDeregister
    <3>2. Types'
      BY <1>0, <3>1 DEF Types, Stages
    <3>3. Staged'
      BY <3>1 DEF Staged, Usable
    <3>4. ReferencesBalanced'
      BY <1>1, <3>1 DEF ReferencesBalanced, Staged
    <3> QED
      BY <1>1, <2>4, <2>5, <3>2, <3>3, <3>4
  <2> QED
    BY <1>5, <2>6, <2>7
<1> QED
  BY <1>2, <1>3, <1>4, <1>5 DEF Module

\* A step of user space leaves the module alone.
LEMMA UserSteps ==
  ASSUME IInv, User
  PROVE  IInv'
<1> USE DEF IInv
<1>0. stage' = stage /\ at' = at /\ mem' = mem
  BY DEF User, Open, Close, Mmap, Mremap, Fault, Munmap
<1>1. Staged'
  BY <1>0 DEF Staged
<1>2. CASE \E f \in Files : Open(f) \/ Close(f)
  <2>1. refs' = refs /\ vma' = vma
    BY <1>2 DEF Open, Close
  <2>2. Types' /\ Life'
    BY <1>0, <1>2, <2>1 DEF Types, Life, Open, Close
  <2>3. Placed' /\ Granted' /\ ReferencesBalanced'
    BY <1>0, <2>1 DEF Placed, Granted, ReferencesBalanced, Maps
  <2> QED
    BY <1>1, <2>2, <2>3
<1>3. ASSUME NEW f \in Files, NEW v \in Vmas, NEW pgoff \in Pgoffs, NEW len \in 1 .. MaxLen,
             NEW flags \in SUBSET {"read", "write"}, Mmap(f, v, pgoff, len, flags)
      PROVE  IInv'
  <2> DEFINE new == [NoVma EXCEPT !.file = f, !.pgoff = pgoff, !.len = len, !.flags = flags]
  <2>1. /\ vma[v] = NoVma /\ vma' = [vma EXCEPT ![v] = new] /\ fd[f] /\ fd' = fd /\ refs' = refs
        /\ MayMap(pgoff, len, flags)
    BY <1>3 DEF Mmap
  <2>2. /\ new \in Areas /\ new.file = f /\ new.pgoff = pgoff /\ new.flags = flags
        /\ new.pte = NoVma.pte
    <3>1. pgoff \in Nat /\ len \in 0 .. MaxLen /\ NoVma \in Areas
      BY NoVmaType, MmapAssumption
    <3>2. new \in Areas
      BY <3>1 DEF Areas
    <3>3. new.file = f /\ new.pgoff = pgoff /\ new.flags = flags /\ new.pte = NoVma.pte
      BY <3>1 DEF Areas
    <3> QED
      BY <3>2, <3>3
  <2> HIDE DEF new
  <2>3. Types'
    BY <1>0, <2>1, <2>2 DEF Types
  <2>4. \A w \in Vmas : vma'[w].pte = vma[w].pte
    BY <2>1, <2>2 DEF Types
  <2>5. \A w \in Vmas : w # v => vma'[w] = vma[w]
    BY <2>1 DEF Types
  <2>6. vma'[v] = new
    BY <2>1 DEF Types
  <2>7. Life'
    BY <1>0, <2>1, <2>2, <2>5, <2>6, MmapAssumption DEF Life
  <2>8. \A k \in 0 .. MaxLen : new.pte[k] \notin Pages
    BY <2>2, NoVmaType DEF NoPage, Pages
  <2>9. Placed'
    BY <1>0, <2>5, <2>6, <2>8 DEF Placed
  <2>10. "write" \in flags => pgoff >= 2
    BY <2>1, MmapAssumption DEF MayMap
  <2>11. Granted'
    BY <2>2, <2>5, <2>6, <2>10 DEF Granted
  <2>12. \A i : Maps(i)' = Maps(i)
    BY <2>4 DEF Maps
  <2>13. ReferencesBalanced'
    BY <1>0, <2>1, <2>12 DEF ReferencesBalanced
  <2> QED
    BY <1>1, <2>3, <2>7, <2>9, <2>11, <2>13
<1>4. ASSUME NEW v \in Vmas, Mremap(v)
      PROVE  IInv'
  <2> DEFINE new == [vma[v] EXCEPT !.len = @ + 1]
  <2>1. /\ vma[v] # NoVma /\ vma' = [vma EXCEPT ![v] = new] /\ fd' = fd /\ refs' = refs
        /\ vma[v].len < MaxLen
    BY <1>4 DEF Mremap
  <2>2. /\ new \in Areas /\ new.file = vma[v].file /\ new.pgoff = vma[v].pgoff
        /\ new.flags = vma[v].flags /\ new.pte = vma[v].pte
    <3>1. vma[v] \in Areas
      BY DEF Types
    <3>2. vma[v].len + 1 \in 0 .. MaxLen
      BY <2>1, <3>1, MmapAssumption DEF Areas
    <3>3. new \in Areas
      BY <3>1, <3>2 DEF Areas
    <3>4. /\ new.file = vma[v].file /\ new.pgoff = vma[v].pgoff
          /\ new.flags = vma[v].flags /\ new.pte = vma[v].pte
      BY <3>1 DEF Areas
    <3> QED
      BY <3>3, <3>4
  <2> HIDE DEF new
  <2>3. Types'
    BY <1>0, <2>1, <2>2 DEF Types
  <2>4. \A w \in Vmas : /\ vma'[w].file = vma[w].file /\ vma'[w].pgoff = vma[w].pgoff
                        /\ vma'[w].flags = vma[w].flags /\ vma'[w].pte = vma[w].pte
                        /\ vma[w] = NoVma => vma'[w] = NoVma
    BY <2>1, <2>2 DEF Types
  <2>5. Life'
    BY <1>0, <2>1, <2>4 DEF Life
  <2>6. Placed' /\ Granted'
    BY <1>0, <2>4 DEF Placed, Granted
  <2>7. \A i : Maps(i)' = Maps(i)
    BY <2>4 DEF Maps
  <2>8. ReferencesBalanced'
    BY <1>0, <2>1, <2>7 DEF ReferencesBalanced
  <2> QED
    BY <1>1, <2>3, <2>5, <2>6, <2>8
<1>5. ASSUME NEW v \in Vmas, NEW k \in 0 .. MaxLen, Fault(v, k)
      PROVE  IInv'
  <2> DEFINE page == my_find_page(vma[v].pgoff + k)
  <2> DEFINE new == [vma[v] EXCEPT !.pte[k] = page]
  <2>0. vma[v] \in Areas /\ vma[v].pgoff \in Nat /\ k \in Nat
    BY MmapAssumption DEF Types, Areas
  <2>1. /\ vma[v].pte[k] = NoPage /\ page # NoPage /\ fd' = fd /\ k < vma[v].len
        /\ vma' = [vma EXCEPT ![v] = new] /\ refs' = Take(page)
    BY <1>5 DEF Fault
  <2>2. /\ page \in 1 .. 5
        /\ page \in Pages => page = vma[v].pgoff + k + 1 /\ mem[page] # "null"
    BY <2>0, <2>1 DEF my_find_page, Resolve, Junk, NoPage, Pages
  <2> HIDE DEF page
  <2>3. /\ new \in Areas /\ new.file = vma[v].file /\ new.pgoff = vma[v].pgoff
        /\ new.flags = vma[v].flags /\ new.pte = [vma[v].pte EXCEPT ![k] = page]
    <3> DEFINE pte == [vma[v].pte EXCEPT ![k] = page]
    <3>1. pte \in [0 .. MaxLen -> 0 .. 5]
      BY <2>0, <2>2 DEF Areas
    <3>2. new = [vma[v] EXCEPT !.pte = pte]
      BY <2>0 DEF Areas
    <3> HIDE DEF pte, new
    <3>3. new \in Areas
      BY <2>0, <3>1, <3>2 DEF Areas
    <3>4. /\ new.file = vma[v].file /\ new.pgoff = vma[v].pgoff
          /\ new.flags = vma[v].flags /\ new.pte = pte
      BY <2>0, <3>2 DEF Areas
    <3> QED
      BY <3>3, <3>4 DEF pte
  <2> HIDE DEF new
  <2>4. vma'[v] = new /\ \A w \in Vmas : w # v => vma'[w] = vma[w]
    BY <2>1 DEF Types
  <2>5. vma[v].len # 0
    BY <2>0, <2>1 DEF Areas
  <2>6. vma[v].file # "none" /\ stage \in Usable
    BY <2>5, <2>0 DEF Life, NoVma
  <2>7. Types'
    BY <1>0, <2>1, <2>2, <2>3 DEF Types, Take
  <2>8. Life'
    BY <1>0, <2>1, <2>3, <2>4, <2>6 DEF Life
  <2>9. Granted'
    BY <2>3, <2>4 DEF Granted
  <2>10. page \in Pages => mem[page] = "page"
    BY <2>2, <2>6 DEF Staged, Types
  <2>11. \A j \in 0 .. MaxLen : vma'[v].pte[j] = IF j = k THEN page ELSE vma[v].pte[j]
    BY <2>0, <2>3, <2>4 DEF Areas
  <2>12. Placed'
    BY <1>0, <2>2, <2>3, <2>4, <2>10, <2>11 DEF Placed
  <2>13. PICK q \in 1 .. 5 : q = page      \* rigid: page is a state function
    BY <2>2
  <2>14. \A i \in Pages : i # q => Maps(i)' = Maps(i)
    BY <2>1, <2>4, <2>11, <2>13 DEF Maps, NoPage, Pages
  <2>15. ASSUME q \in Pages
         PROVE  Cardinality(Maps(q)') = Cardinality(Maps(q)) + 1
    <3>1. <<v, k>> \notin Maps(q)
      BY <2>1, <2>13 DEF Maps
    <3>2. \A w \in Vmas, j \in 0 .. MaxLen :
            vma'[w].pte[j] = q <=> vma[w].pte[j] = q \/ (w = v /\ j = k)
      BY <2>4, <2>11, <2>13
    <3>3. Maps(q)' = Maps(q) \cup {<<v, k>>}
      BY <3>2 DEF Maps
    <3> QED
      BY <3>1, <3>3, MapsFinite, FS_AddElement
  <2>16. ReferencesBalanced'
    <3>1. CASE q \in Pages
      <4>1. refs' = [refs EXCEPT ![q] = @ + 1] /\ mem[q] = "page"
        BY <2>1, <2>10, <2>13, <3>1 DEF Take
      <4>2. Cardinality(Maps(q)') = Cardinality(Maps(q)) + 1 /\ Cardinality(Maps(q)) \in Nat
        BY <2>15, <3>1, MapsFinite
      <4>3. refs'[q] = 1 + Cardinality(Maps(q)')
        BY <3>1, <4>1, <4>2 DEF ReferencesBalanced, Types
      <4>4. \A i \in Pages : i # q => refs'[i] = refs[i]
        BY <4>1 DEF Types
      <4> QED
        BY <1>0, <2>14, <4>1, <4>3, <4>4 DEF ReferencesBalanced
    <3>2. CASE q \notin Pages
      BY <1>0, <2>1, <2>13, <2>14, <3>2 DEF ReferencesBalanced, Take
    <3> QED
      BY <3>1, <3>2
  <2> QED
    BY <1>1, <2>7, <2>8, <2>9, <2>12, <2>16
<1>6. ASSUME NEW v \in Vmas, Munmap(v)
      PROVE  IInv'
  <2>1. /\ vma' = [vma EXCEPT ![v] = NoVma] /\ fd' = fd
        /\ refs' = [i \in Pages |-> refs[i] - Cardinality({p \in Maps(i) : p[1] = v})]
    BY <1>6 DEF Munmap
  <2>2. vma'[v] = NoVma /\ \A w \in Vmas : w # v => vma'[w] = vma[w]
    BY <2>1 DEF Types
  <2> DEFINE Own(i) == {p \in Maps(i) : p[1] = v}
  <2>3. \A i : Cardinality(Own(i)) \in Nat
    <3> TAKE i
    <3>1. Own(i) \in SUBSET Maps(i)
      OBVIOUS
    <3>2. IsFiniteSet(Own(i))
      BY <3>1, MapsFinite, FS_Subset
    <3> QED
      BY <3>2, FS_CardinalityType
  <2>4. Types'
    BY <1>0, <2>1, <2>3, NoVmaType DEF Types
  <2>5. Life' /\ Granted'
    BY <1>0, <2>1, <2>2, NoVmaType DEF Life, Granted
  <2>6. Placed'
    BY <1>0, <2>2, NoVmaType DEF Placed, NoPage, Pages
  <2>7. \A i \in Pages : Maps(i)' = Maps(i) \ Own(i) /\ Maps(i) \cap Own(i) = Own(i)
    BY <2>2, NoVmaType DEF Maps, NoPage, Pages
  <2>8. \A i \in Pages : Cardinality(Maps(i)') = Cardinality(Maps(i)) - Cardinality(Own(i))
    <3> TAKE i \in Pages
    <3> HIDE DEF Own
    <3>1. Cardinality(Maps(i) \ Own(i)) = Cardinality(Maps(i)) - Cardinality(Maps(i) \cap Own(i))
      BY MapsFinite, FS_Difference
    <3> QED
      BY <2>7, <3>1
  <2>9. ReferencesBalanced'
    BY <1>0, <2>1, <2>3, <2>8, MapsFinite DEF ReferencesBalanced, Types
  <2> QED
    BY <1>1, <2>4, <2>5, <2>6, <2>9
<1> QED
  BY <1>2, <1>3, <1>4, <1>5, <1>6 DEF User

\* IInv is inductive.
LEMMA INext == IInv /\ [Next]_vars => IInv'
<1>1. IInv /\ UNCHANGED vars => IInv'
  BY DEF vars, IInv, Types, Life, Staged, Placed, Granted, ReferencesBalanced, Maps
<1> QED
  BY <1>1, ModuleSteps, UserSteps DEF Next

\* The references to the four pages are always accounted for.
THEOREM Balanced == Spec => []ReferencesBalanced
<1>1. IInv => ReferencesBalanced
  BY DEF IInv
<1> QED
  BY <1>1, IInit, INext, PTL DEF Spec

\* User space never has a page mapped that the module has freed.
THEOREM NothingStale == Spec => []MappedIsOwned
<1>1. IInv => MappedIsOwned
  BY DEF IInv, Placed, MappedIsOwned
<1> QED
  BY <1>1, IInit, INext, PTL DEF Spec

\* The first two pages are never in an area that was accepted as writable.
THEOREM ReadOnlyPages == Spec => []WritableLastTwo
<1>1. IInv => WritableLastTwo
  BY MmapAssumption DEF IInv, Types, Areas, Placed, Granted, WritableLastTwo, Pages
<1> QED
  BY <1>1, IInit, INext, PTL DEF Spec

\* The variables keep their types; above all no page loses more references than
\* it has, which follows from the balance.
THEOREM TypeCorrect == Spec => []TypeOK
<1>1. IInv => TypeOK
  BY MapsFinite DEF IInv, Types, TypeOK, ReferencesBalanced
<1> QED
  BY <1>1, IInit, INext, PTL DEF Spec

\* A fault of a live module maps the page of its offset and nothing else changes
\* what is mapped, other than to unmap it.
THEOREM FaultsRight == Spec => FaultsAgree
<1> DEFINE Agree == \A v \in Vmas, k \in 0 .. MaxLen :
             stage = "live" /\ vma'[v].pte[k] \notin {NoPage, vma[v].pte[k]}
               => vma'[v].pte[k] = vma[v].pgoff + k + 1
<1>1. IInv /\ [Next]_vars => Agree
  <2> SUFFICES ASSUME IInv, [Next]_vars, NEW w \in Vmas, NEW j \in 0 .. MaxLen,
                      stage = "live", vma'[w].pte[j] \notin {NoPage, vma[w].pte[j]}
               PROVE  vma'[w].pte[j] = vma[w].pgoff + j + 1
    OBVIOUS
  <2>1. vma' # vma
    OBVIOUS
  <2>2. ~Module /\ ~(\E f \in Files : Open(f) \/ Close(f)) /\ ~(UNCHANGED vars)
    BY <2>1 DEF Module, Load, InitRegister, InitAlloc, InitFill, Unload, ExitFree,
       ExitDeregister, Open, Close, vars
  <2>3. vma \in [Vmas -> Areas] /\ vma[w] \in Areas
    BY DEF IInv, Types
  <2>4. ASSUME NEW f \in Files, NEW v \in Vmas, NEW pgoff \in Pgoffs, NEW len \in 1 .. MaxLen,
               NEW flags \in SUBSET {"read", "write"}, Mmap(f, v, pgoff, len, flags)
        PROVE  FALSE
    <3> DEFINE new == [NoVma EXCEPT !.file = f, !.pgoff = pgoff, !.len = len, !.flags = flags]
    <3>1. vma[v] = NoVma /\ vma' = [vma EXCEPT ![v] = new]
      BY <2>4 DEF Mmap
    <3>2. new.pte = NoVma.pte
      BY NoVmaType DEF Areas
    <3> HIDE DEF new
    <3>3. vma'[w].pte = vma[w].pte
      BY <2>3, <3>1, <3>2
    <3> QED
      BY <3>3
  <2>5. ASSUME NEW v \in Vmas, Mremap(v)
        PROVE  FALSE
    <3> DEFINE new == [vma[v] EXCEPT !.len = @ + 1]
    <3>1. vma' = [vma EXCEPT ![v] = new]
      BY <2>5 DEF Mremap
    <3>2. new.pte = vma[v].pte
      BY <2>3 DEF Areas
    <3> HIDE DEF new
    <3>3. vma'[w].pte = vma[w].pte
      BY <2>3, <3>1, <3>2
    <3> QED
      BY <3>3
  <2>6. ASSUME NEW v \in Vmas, Munmap(v)
        PROVE  FALSE
    BY <2>3, <2>6, NoVmaType DEF Munmap
  <2>7. ASSUME NEW v \in Vmas, NEW k \in 0 .. MaxLen, Fault(v, k)
        PROVE  vma'[w].pte[j] = vma[w].pgoff + j + 1
    <3> DEFINE page == my_find_page(vma[v].pgoff + k)
    <3>1. vma' = [vma EXCEPT ![v].pte[k] = page] /\ page # NoPage
      BY <2>7 DEF Fault
    <3>2. vma[v].pgoff \in Nat /\ k \in Nat
      BY <2>3, MmapAssumption DEF Areas
    <3>3. page = vma[v].pgoff + k + 1
      BY <3>1, <3>2 DEF my_find_page, Resolve, IInv, Staged, Pages
    <3> HIDE DEF page
    <3>4. w = v /\ j = k
      BY <2>3, <3>1 DEF Areas
    <3>5. vma'[w].pte[j] = page
      BY <2>3, <3>1, <3>4 DEF Areas
    <3> QED
      BY <3>3, <3>4, <3>5
  <2> QED
    BY <2>2, <2>4, <2>5, <2>6, <2>7 DEF Next, User
<1> QED
  BY <1>1, IInit, INext, PTL DEF Spec, FaultsAgree
================================================================================
