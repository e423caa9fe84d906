----------------------------- MODULE PhantomProofs -----------------------------
(***************************************************************************)
(* Proofs about Phantom, for every number of cards, threads and files and  *)
(* every PHANTOM_MAX_MINORS: type correctness and all of its safety        *)
(* invariants.                                                             *)
(*                                                                         *)
(* None of them is inductive.  What a card holds follows from the label    *)
(* its probe or remove is at (StageInv), so that a failed step jumps to    *)
(* the label that gives back exactly what was taken.  A running handler    *)
(* means a requested line (IsrInv).  A file in use means a module that     *)
(* stays and a card that is bound (FileInv, ModuleInv), so that no file is *)
(* left when phantom_remove begins.  The check of dev->opened still holds  *)
(* at its increment because phantom_mutex has been held in between         *)
(* (MutexInv, CountInv); dev->open_lock is not needed for that.            *)
(***************************************************************************)
EXTENDS Phantom, TLAPS

\* The labels of phantom_probe and phantom_remove at which each resource is held.
EnabledAt == {"p_minor", "p_regions", "p_alloc", "p_caddr", "p_iaddr", "p_irq", "p_cdev",
              "bound", "err_irq", "err_unmi", "err_unmc", "err_fr", "err_reg", "err_null",
              "err_dis", "r_cdev", "r_irq", "r_iaddr", "r_caddr", "r_free", "r_regions",
              "r_minor", "r_disable"}
MinorAt   == EnabledAt \ {"p_minor", "err_dis", "r_disable"}
RegionsAt == MinorAt \ {"p_regions", "err_null", "r_minor"}
PhtAt     == RegionsAt \ {"p_alloc", "err_reg", "r_regions"}
CaddrAt   == PhtAt \ {"p_caddr", "err_fr", "r_free"}
IaddrAt   == CaddrAt \ {"p_iaddr", "err_unmc", "r_caddr"}
IrqAt     == IaddrAt \ {"p_irq", "err_unmi", "r_iaddr"}
CdevAt    == IrqAt \ {"p_cdev", "err_irq", "r_irq"}

\* The statements of phantom_remove.
RemovalAt == {"r_cdev", "r_irq", "r_iaddr", "r_caddr", "r_free", "r_regions", "r_minor",
              "r_disable"}

Resources == {"enabled", "minor", "regions", "pht", "caddr", "iaddr", "irq", "cdev"}
Labels    == EnabledAt \cup {"none", "p_enable"}

\* The labels and the resources.
StageType == ctl \in [Cards -> Labels] /\ res \in [Cards -> SUBSET Resources]

\* A card holds a resource exactly at the labels between taking and giving it back.
StageInv ==
  \A d \in Cards :
    /\ "enabled" \in res[d] <=> ctl[d] \in EnabledAt
    /\ "minor" \in res[d] <=> ctl[d] \in MinorAt
    /\ "regions" \in res[d] <=> ctl[d] \in RegionsAt
    /\ "pht" \in res[d] <=> ctl[d] \in PhtAt
    /\ "caddr" \in res[d] <=> ctl[d] \in CaddrAt
    /\ "iaddr" \in res[d] <=> ctl[d] \in IaddrAt
    /\ "irq" \in res[d] <=> ctl[d] \in IrqAt
    /\ "cdev" \in res[d] <=> ctl[d] \in CdevAt

\* A step from one label to another that takes or gives back one resource.
Gains(d, from, r, to) ==
  ctl[d] = from /\ res' = [res EXCEPT ![d] = @ \cup {r}] /\ Goto(d, to)
Loses(d, from, r, to) ==
  ctl[d] = from /\ res' = [res EXCEPT ![d] = @ \ {r}] /\ Goto(d, to)
\* A step from one label to another that does neither.
Jumps(d, from, to) == ctl[d] \in from /\ res' = res /\ Goto(d, to)

\* What each acquisition of phantom_probe does, read off the table Take.
LEMMA TakeSteps ==
  ASSUME NEW d \in Cards, ProbeTake(d)
  PROVE  \/ Gains(d, "p_enable", "enabled", "p_minor")
         \/ Gains(d, "p_regions", "regions", "p_alloc")
         \/ Gains(d, "p_caddr", "caddr", "p_iaddr")
         \/ Gains(d, "p_iaddr", "iaddr", "p_irq")
         \/ Gains(d, "p_irq", "irq", "p_cdev")
         \/ Gains(d, "p_cdev", "cdev", "bound")
<1>1. /\ DOMAIN Take = {"p_enable", "p_regions", "p_caddr", "p_iaddr", "p_irq", "p_cdev"}
      /\ Take["p_enable"].gets = "enabled" /\ Take["p_enable"].next = "p_minor"
      /\ Take["p_regions"].gets = "regions" /\ Take["p_regions"].next = "p_alloc"
      /\ Take["p_caddr"].gets = "caddr" /\ Take["p_caddr"].next = "p_iaddr"
      /\ Take["p_iaddr"].gets = "iaddr" /\ Take["p_iaddr"].next = "p_irq"
      /\ Take["p_irq"].gets = "irq" /\ Take["p_irq"].next = "p_cdev"
      /\ Take["p_cdev"].gets = "cdev" /\ Take["p_cdev"].next = "bound"
  BY DEF Take
<1>2. CASE ctl[d] = "p_enable"
  BY <1>1, <1>2 DEF ProbeTake, Gains, Goto
<1>3. CASE ctl[d] = "p_regions"
  BY <1>1, <1>3 DEF ProbeTake, Gains, Goto
<1>4. CASE ctl[d] = "p_caddr"
  BY <1>1, <1>4 DEF ProbeTake, Gains, Goto
<1>5. CASE ctl[d] = "p_iaddr"
  BY <1>1, <1>5 DEF ProbeTake, Gains, Goto
<1>6. CASE ctl[d] = "p_irq"
  BY <1>1, <1>6 DEF ProbeTake, Gains, Goto
<1>7. CASE ctl[d] = "p_cdev"
  BY <1>1, <1>7 DEF ProbeTake, Gains, Goto
<1>8. QED
  BY <1>1, <1>2, <1>3, <1>4, <1>5, <1>6, <1>7 DEF ProbeTake

\* Where each failure of phantom_probe jumps to.
LEMMA FailSteps ==
  ASSUME NEW d \in Cards, ProbeFail(d)
  PROVE  \/ Jumps(d, {"p_enable"}, "none") \/ Jumps(d, {"p_minor"}, "err_dis")
         \/ Jumps(d, {"p_regions"}, "err_null") \/ Jumps(d, {"p_alloc"}, "err_reg")
         \/ Jumps(d, {"p_caddr"}, "err_fr") \/ Jumps(d, {"p_iaddr"}, "err_unmc")
         \/ Jumps(d, {"p_irq"}, "err_unmi") \/ Jumps(d, {"p_cdev"}, "err_irq")
BY DEF ProbeFail, Take, Jumps, Goto

\* What each label of the cascade of phantom_probe does.
LEMMA UnwindSteps ==
  ASSUME NEW d \in Cards, ProbeUnwind(d)
  PROVE  \/ Loses(d, "err_irq", "irq", "err_unmi") /\ ~isr[d]
         \/ Loses(d, "err_unmi", "iaddr", "err_unmc")
         \/ Loses(d, "err_unmc", "caddr", "err_fr")
         \/ Loses(d, "err_fr", "pht", "err_reg")
         \/ Loses(d, "err_reg", "regions", "err_null")
         \/ Loses(d, "err_null", "minor", "err_dis")
         \/ Loses(d, "err_dis", "enabled", "none")
<1>1. /\ DOMAIN Unwind = {"err_irq", "err_unmi", "err_unmc", "err_fr", "err_reg", "err_null",
                           "err_dis"}
      /\ Unwind["err_irq"].drops = "irq" /\ Unwind["err_irq"].next = "err_unmi"
      /\ Unwind["err_unmi"].drops = "iaddr" /\ Unwind["err_unmi"].next = "err_unmc"
      /\ Unwind["err_unmc"].drops = "caddr" /\ Unwind["err_unmc"].next = "err_fr"
      /\ Unwind["err_fr"].drops = "pht" /\ Unwind["err_fr"].next = "err_reg"
      /\ Unwind["err_reg"].drops = "regions" /\ Unwind["err_reg"].next = "err_null"
      /\ Unwind["err_null"].drops = "minor" /\ Unwind["err_null"].next = "err_dis"
      /\ Unwind["err_dis"].drops = "enabled" /\ Unwind["err_dis"].next = "none"
  BY DEF Unwind
<1>2. CASE ctl[d] = "err_irq"
  BY <1>1, <1>2 DEF ProbeUnwind, Drop, Loses, Goto
<1>3. CASE ctl[d] = "err_unmi"
  BY <1>1, <1>3 DEF ProbeUnwind, Drop, Loses, Goto
<1>4. CASE ctl[d] = "err_unmc"
  BY <1>1, <1>4 DEF ProbeUnwind, Drop, Loses, Goto
<1>5. CASE ctl[d] = "err_fr"
  BY <1>1, <1>5 DEF ProbeUnwind, Drop, Loses, Goto
<1>6. CASE ctl[d] = "err_reg"
  BY <1>1, <1>6 DEF ProbeUnwind, Drop, Loses, Goto
<1>7. CASE ctl[d] = "err_null"
  BY <1>1, <1>7 DEF ProbeUnwind, Drop, Loses, Goto
<1>8. CASE ctl[d] = "err_dis"
  BY <1>1, <1>8 DEF ProbeUnwind, Drop, Loses, Goto
<1>9. QED
  BY <1>1, <1>2, <1>3, <1>4, <1>5, <1>6, <1>7, <1>8 DEF ProbeUnwind, Drop

\* What each statement of phantom_remove does.
LEMMA RemovalSteps ==
  ASSUME NEW d \in Cards, RemoveStep(d)
  PROVE  \/ Loses(d, "r_cdev", "cdev", "r_irq")
         \/ Loses(d, "r_irq", "irq", "r_iaddr") /\ ~isr[d]
         \/ Loses(d, "r_iaddr", "iaddr", "r_caddr")
         \/ Loses(d, "r_caddr", "caddr", "r_free")
         \/ Loses(d, "r_free", "pht", "r_regions")
         \/ Loses(d, "r_regions", "regions", "r_minor")
         \/ Loses(d, "r_minor", "minor", "r_disable")
         \/ Loses(d, "r_disable", "enabled", "none")
<1>1. /\ DOMAIN Removal = RemovalAt
      /\ Removal["r_cdev"].drops = "cdev" /\ Removal["r_cdev"].next = "r_irq"
      /\ Removal["r_irq"].drops = "irq" /\ Removal["r_irq"].next = "r_iaddr"
      /\ Removal["r_iaddr"].drops = "iaddr" /\ Removal["r_iaddr"].next = "r_caddr"
      /\ Removal["r_caddr"].drops = "caddr" /\ Removal["r_caddr"].next = "r_free"
      /\ Removal["r_free"].drops = "pht" /\ Removal["r_free"].next = "r_regions"
      /\ Removal["r_regions"].drops = "regions" /\ Removal["r_regions"].next = "r_minor"
      /\ Removal["r_minor"].drops = "minor" /\ Removal["r_minor"].next = "r_disable"
      /\ Removal["r_disable"].drops = "enabled" /\ Removal["r_disable"].next = "none"
  BY DEF Removal, RemovalAt
<1>2. CASE ctl[d] = "r_cdev"
  BY <1>1, <1>2 DEF RemoveStep, Drop, Loses, Goto
<1>3. CASE ctl[d] = "r_irq"
  BY <1>1, <1>3 DEF RemoveStep, Drop, Loses, Goto
<1>4. CASE ctl[d] = "r_iaddr"
  BY <1>1, <1>4 DEF RemoveStep, Drop, Loses, Goto
<1>5. CASE ctl[d] = "r_caddr"
  BY <1>1, <1>5 DEF RemoveStep, Drop, Loses, Goto
<1>6. CASE ctl[d] = "r_free"
  BY <1>1, <1>6 DEF RemoveStep, Drop, Loses, Goto
<1>7. CASE ctl[d] = "r_regions"
  BY <1>1, <1>7 DEF RemoveStep, Drop, Loses, Goto
<1>8. CASE ctl[d] = "r_minor"
  BY <1>1, <1>8 DEF RemoveStep, Drop, Loses, Goto
<1>9. CASE ctl[d] = "r_disable"
  BY <1>1, <1>9 DEF RemoveStep, Drop, Loses, Goto
<1>10. QED
  BY <1>1, <1>2, <1>3, <1>4, <1>5, <1>6, <1>7, <1>8, <1>9 DEF RemoveStep, Drop, RemovalAt

\* Only err_null and the same statement of phantom_remove free a minor number.
LEMMA DropMinor ==
  ASSUME NEW d \in Cards, ProbeUnwind(d) \/ RemoveStep(d)
  PROVE  phantom_devices' = IF ctl[d] \in {"err_null", "r_minor"}
                            THEN [phantom_devices EXCEPT ![minor[d]] = 0] ELSE phantom_devices
BY DEF ProbeUnwind, RemoveStep, Drop, Unwind, Removal

\* An acquisition of phantom_probe keeps StageInv.
LEMMA StageGain ==
  ASSUME StageType, StageInv, NEW d \in Cards, ProbeTake(d)
  PROVE  StageType' /\ StageInv'
<1> USE DEF StageType, StageInv, Labels, Resources, EnabledAt, MinorAt, RegionsAt, PhtAt,
            CaddrAt, IaddrAt, IrqAt, CdevAt, Goto, Gains
<1>1. CASE Gains(d, "p_enable", "enabled", "p_minor")
  BY <1>1
<1>2. CASE Gains(d, "p_regions", "regions", "p_alloc")
  BY <1>2
<1>3. CASE Gains(d, "p_caddr", "caddr", "p_iaddr")
  BY <1>3
<1>4. CASE Gains(d, "p_iaddr", "iaddr", "p_irq")
  BY <1>4
<1>5. CASE Gains(d, "p_irq", "irq", "p_cdev")
  BY <1>5
<1>6. CASE Gains(d, "p_cdev", "cdev", "bound")
  BY <1>6
<1>7. QED
  BY <1>1, <1>2, <1>3, <1>4, <1>5, <1>6, TakeSteps

\* A label of the cascade keeps StageInv.
LEMMA StageUnwind ==
  ASSUME StageType, StageInv, NEW d \in Cards, ProbeUnwind(d)
  PROVE  StageType' /\ StageInv'
<1> USE DEF StageType, StageInv, Labels, Resources, EnabledAt, MinorAt, RegionsAt, PhtAt,
            CaddrAt, IaddrAt, IrqAt, CdevAt, Goto, Loses
<1>1. CASE Loses(d, "err_irq", "irq", "err_unmi")
  BY <1>1
<1>2. CASE Loses(d, "err_unmi", "iaddr", "err_unmc")
  BY <1>2
<1>3. CASE Loses(d, "err_unmc", "caddr", "err_fr")
  BY <1>3
<1>4. CASE Loses(d, "err_fr", "pht", "err_reg")
  BY <1>4
<1>5. CASE Loses(d, "err_reg", "regions", "err_null")
  BY <1>5
<1>6. CASE Loses(d, "err_null", "minor", "err_dis")
  BY <1>6
<1>7. CASE Loses(d, "err_dis", "enabled", "none")
  BY <1>7
<1>8. QED
  BY <1>1, <1>2, <1>3, <1>4, <1>5, <1>6, <1>7, UnwindSteps

\* A statement of phantom_remove keeps StageInv.
LEMMA StageRemoval ==
  ASSUME StageType, StageInv, NEW d \in Cards, RemoveStep(d)
  PROVE  StageType' /\ StageInv'
<1> USE DEF StageType, StageInv, Labels, Resources, EnabledAt, MinorAt, RegionsAt, PhtAt,
            CaddrAt, IaddrAt, IrqAt, CdevAt, Goto, Loses
<1>1. CASE Loses(d, "r_cdev", "cdev", "r_irq")
  BY <1>1
<1>2. CASE Loses(d, "r_irq", "irq", "r_iaddr")
  BY <1>2
<1>3. CASE Loses(d, "r_iaddr", "iaddr", "r_caddr")
  BY <1>3
<1>4. CASE Loses(d, "r_caddr", "caddr", "r_free")
  BY <1>4
<1>5. CASE Loses(d, "r_free", "pht", "r_regions")
  BY <1>5
<1>6. CASE Loses(d, "r_regions", "regions", "r_minor")
  BY <1>6
<1>7. CASE Loses(d, "r_minor", "minor", "r_disable")
  BY <1>7
<1>8. CASE Loses(d, "r_disable", "enabled", "none")
  BY <1>8
<1>9. QED
  BY <1>1, <1>2, <1>3, <1>4, <1>5, <1>6, <1>7, <1>8, RemovalSteps

\* A failure jumps to the label of what is held: it keeps StageInv.
LEMMA StageFail ==
  ASSUME StageType, StageInv, NEW d \in Cards, ProbeFail(d)
  PROVE  StageType' /\ StageInv'
<1> USE DEF StageType, StageInv, Labels, Resources, EnabledAt, MinorAt, RegionsAt, PhtAt,
            CaddrAt, IaddrAt, IrqAt, CdevAt, Goto, Jumps
<1>1. CASE Jumps(d, {"p_enable"}, "none")
  BY <1>1
<1>2. CASE Jumps(d, {"p_minor"}, "err_dis")
  BY <1>2
<1>3. CASE Jumps(d, {"p_regions"}, "err_null")
  BY <1>3
<1>4. CASE Jumps(d, {"p_alloc"}, "err_reg")
  BY <1>4
<1>5. CASE Jumps(d, {"p_caddr"}, "err_fr")
  BY <1>5
<1>6. CASE Jumps(d, {"p_iaddr"}, "err_unmc")
  BY <1>6
<1>7. CASE Jumps(d, {"p_irq"}, "err_unmi")
  BY <1>7
<1>8. CASE Jumps(d, {"p_cdev"}, "err_irq")
  BY <1>8
<1>9. QED
  BY <1>1, <1>2, <1>3, <1>4, <1>5, <1>6, <1>7, <1>8, FailSteps

\* StageInv is inductive.
LEMMA StagePreserved ==
  ASSUME StageType, StageInv, [Next]_vars
  PROVE  StageType' /\ StageInv'
<1> USE DEF StageType, StageInv, Labels, Resources, EnabledAt, MinorAt, RegionsAt, PhtAt,
            CaddrAt, IaddrAt, IrqAt, CdevAt, Goto
<1>1. CASE UNCHANGED <<ctl, res>>
  BY <1>1
<1>2. ASSUME NEW d \in Cards, Probe(d)
      PROVE  StageType' /\ StageInv'
  BY <1>2 DEF Probe
<1>3. ASSUME NEW d \in Cards, Remove(d)
      PROVE  StageType' /\ StageInv'
  BY <1>3 DEF Remove
<1>4. ASSUME NEW d \in Cards, ProbeMinor(d)
      PROVE  StageType' /\ StageInv'
  BY <1>4 DEF ProbeMinor
<1>5. ASSUME NEW d \in Cards, ProbeAlloc(d)
      PROVE  StageType' /\ StageInv'
  BY <1>5 DEF ProbeAlloc
<1>6. ASSUME NEW d \in Cards, ProbeTake(d) \/ ProbeFail(d) \/ ProbeUnwind(d) \/ RemoveStep(d)
      PROVE  StageType' /\ StageInv'
  BY <1>6, StageGain, StageFail, StageUnwind, StageRemoval
<1>7. [Next]_vars => \/ UNCHANGED <<ctl, res>>
                     \/ \E d \in Cards : \/ Probe(d) \/ Remove(d) \/ ProbeMinor(d) \/ ProbeAlloc(d)
                                          \/ ProbeTake(d) \/ ProbeFail(d)
                                          \/ ProbeUnwind(d) \/ RemoveStep(d)
  BY DEF Next, vars, Control, Acquire, Step, Keep, Load, Unload, Unloaded, IsrEnter, IsrLeave,
         Open, Write, Release, OpenMutex, OpenLock, ReleaseLock, OpenCheck, OpenIncr, OpenUnlock,
         OpenDone, WriteDone, ReleaseReset, ReleaseUnlock, OpenInterrupted
<1>8. QED
  BY <1>1, <1>2, <1>3, <1>4, <1>5, <1>6, <1>7

\* phantom_devices marks the minor numbers the cards hold.
MinorInv ==
  minor \in [Cards -> Minors] /\ phantom_devices \in [Minors -> {0, 1}] /\ MinorsUnique

\* MinorInv depends only on who holds which minor number.
LEMMA MinorSame ==
  ASSUME MinorInv, minor' = minor, phantom_devices' = phantom_devices,
         \A d \in Cards : "minor" \in res'[d] <=> "minor" \in res[d]
  PROVE  MinorInv'
BY DEF MinorInv, MinorsUnique, Owns, Minors

\* MinorInv is inductive: phantom_get_free finds a number nobody holds, and the
\* last holder of a number is the one that frees it.
LEMMA MinorPreserved ==
  ASSUME StageType, StageInv, MinorInv, [Next]_vars
  PROVE  MinorInv'
<1>1. CASE UNCHANGED <<minor, phantom_devices, res>>
  BY <1>1, MinorSame
<1>2. ASSUME NEW d \in Cards, ProbeMinor(d)
      PROVE  MinorInv'
  <2>1. PICK m \in Minors : /\ phantom_devices[m] = 0
                            /\ minor' = [minor EXCEPT ![d] = m]
                            /\ phantom_devices' = [phantom_devices EXCEPT ![m] = 1]
    BY <1>2 DEF ProbeMinor
  <2>2. res' = [res EXCEPT ![d] = @ \cup {"minor"}] /\ "minor" \notin res[d]
    BY <1>2 DEF ProbeMinor, StageType, StageInv, MinorAt
  <2>3. \A e \in Cards : ~Owns(e, m)
    BY <2>1 DEF MinorInv, MinorsUnique
  <2>4. \A e \in Cards, k \in Minors : Owns(e, k)' <=> Owns(e, k) \/ (e = d /\ k = m)
    BY <2>1, <2>2 DEF Owns, StageType, MinorInv
  <2>5. minor' \in [Cards -> Minors] /\ phantom_devices' \in [Minors -> {0, 1}]
    BY <2>1 DEF MinorInv
  <2>6. \A k \in Minors : phantom_devices'[k] = IF \E e \in Cards : Owns(e, k)' THEN 1 ELSE 0
    BY <2>1, <2>4, <2>5 DEF MinorInv, MinorsUnique
  <2>7. \A e, c \in Cards : Owns(e, minor[e])' /\ Owns(c, minor[e])' => e = c
    <3>1. SUFFICES ASSUME NEW e \in Cards, NEW c \in Cards,
                          Owns(e, minor[e])', Owns(c, minor[e])'
                   PROVE  e = c
      OBVIOUS
    <3>2. PICK k \in Minors : k = minor'[e] /\ Owns(e, k)' /\ Owns(c, k)'
      BY <2>5, <3>1 DEF Owns
    <3>3. CASE k = m
      BY <3>2, <3>3, <2>3, <2>4
    <3>4. CASE k # m
      <4>1. Owns(e, k) /\ Owns(c, k)
        BY <3>2, <3>4, <2>4
      <4>2. QED
        BY <4>1 DEF MinorInv, MinorsUnique, Owns
    <3>5. QED
      BY <3>3, <3>4
  <2>8. QED
    BY <2>5, <2>6, <2>7 DEF MinorInv, MinorsUnique
<1>3. ASSUME NEW d \in Cards, ProbeUnwind(d) \/ RemoveStep(d), ctl[d] \in {"err_null", "r_minor"}
      PROVE  MinorInv'
  <2>1. res' = [res EXCEPT ![d] = @ \ {"minor"}] /\ minor' = minor
    BY <1>3, UnwindSteps, RemovalSteps DEF Loses, ProbeUnwind, RemoveStep, Drop
  <2>2. phantom_devices' = [phantom_devices EXCEPT ![minor[d]] = 0]
    BY <1>3, DropMinor
  <2>3. Owns(d, minor[d]) /\ minor[d] \in Minors
    BY <1>3 DEF Owns, StageInv, MinorAt, EnabledAt, MinorInv
  <2>4. \A e \in Cards, k \in Minors : Owns(e, k)' <=> Owns(e, k) /\ e # d
    BY <2>1 DEF Owns, StageType
  <2>5. \A e \in Cards : Owns(e, minor[d]) => e = d
    BY <2>3 DEF MinorInv, MinorsUnique
  <2>6. phantom_devices' \in [Minors -> {0, 1}]
    BY <2>2, <2>3 DEF MinorInv
  <2>7. \A k \in Minors : phantom_devices'[k] = IF \E e \in Cards : Owns(e, k)' THEN 1 ELSE 0
    <3>1. SUFFICES ASSUME NEW k \in Minors
                   PROVE  phantom_devices'[k] = IF \E e \in Cards : Owns(e, k)' THEN 1 ELSE 0
      OBVIOUS
    <3>2. CASE k = minor[d]
      BY <3>2, <2>2, <2>3, <2>4, <2>5 DEF MinorInv
    <3>3. CASE k # minor[d]
      <4>1. \A e \in Cards : Owns(e, k)' <=> Owns(e, k)
        BY <3>3, <2>4 DEF Owns
      <4>2. phantom_devices'[k] = phantom_devices[k]
        BY <3>3, <2>2, <2>3 DEF MinorInv
      <4>3. QED
        BY <4>1, <4>2 DEF MinorInv, MinorsUnique
    <3>4. QED
      BY <3>2, <3>3
  <2>8. \A e, c \in Cards : Owns(e, minor[e])' /\ Owns(c, minor[e])' => e = c
    BY <2>1, <2>4 DEF MinorInv, MinorsUnique
  <2>9. QED
    BY <2>1, <2>6, <2>7, <2>8 DEF MinorInv, MinorsUnique
<1>4. ASSUME NEW d \in Cards, ProbeUnwind(d) \/ RemoveStep(d), ctl[d] \notin {"err_null", "r_minor"}
      PROVE  MinorInv'
  <2>1. minor' = minor /\ phantom_devices' = phantom_devices
    BY <1>4, DropMinor DEF ProbeUnwind, RemoveStep, Drop
  <2>2. \A e \in Cards : "minor" \in res'[e] <=> "minor" \in res[e]
    BY <1>4, UnwindSteps, RemovalSteps DEF Loses, StageType
  <2>3. QED
    BY <2>1, <2>2, MinorSame
<1>5. ASSUME NEW d \in Cards, ProbeTake(d) \/ ProbeAlloc(d)
      PROVE  MinorInv'
  <2>1. minor' = minor /\ phantom_devices' = phantom_devices
    BY <1>5 DEF ProbeTake, ProbeAlloc
  <2>2. \A e \in Cards : "minor" \in res'[e] <=> "minor" \in res[e]
    BY <1>5, TakeSteps DEF Gains, ProbeAlloc, StageType
  <2>3. QED
    BY <2>1, <2>2, MinorSame
<1>6. [Next]_vars => \/ UNCHANGED <<minor, phantom_devices, res>>
                     \/ \E d \in Cards : \/ ProbeMinor(d) \/ ProbeUnwind(d) \/ RemoveStep(d)
                                          \/ ProbeTake(d) \/ ProbeAlloc(d)
  BY DEF Next, vars, Control, Acquire, Step, Keep, Load, Unload, Unloaded, IsrEnter, IsrLeave,
         Open, Write, Release, OpenMutex, OpenLock, ReleaseLock, OpenCheck, OpenIncr, OpenUnlock,
         OpenDone, WriteDone, ReleaseReset, ReleaseUnlock, OpenInterrupted, Probe, Remove, ProbeFail
<1>7. QED
  BY <1>1, <1>2, <1>3, <1>4, <1>5, <1>6

--------------------------------------------------------------------------------
\* phantom_isr runs only for a card whose line is requested.
IsrInv == isr \in [Cards -> BOOLEAN] /\ \A d \in Cards : isr[d] => "irq" \in res[d]

\* IsrInv is inductive: a line is freed only when its handler is not running.
LEMMA IsrPreserved ==
  ASSUME StageType, StageInv, IsrInv, [Next]_vars
  PROVE  IsrInv'
<1>1. CASE UNCHANGED <<isr, res>>
  BY <1>1 DEF IsrInv
<1>2. ASSUME NEW d \in Cards, IsrEnter(d) \/ IsrLeave(d)
      PROVE  IsrInv'
  BY <1>2 DEF IsrEnter, IsrLeave, IsrInv
<1>3. ASSUME NEW d \in Cards, ProbeMinor(d) \/ ProbeAlloc(d)
      PROVE  IsrInv'
  BY <1>3 DEF ProbeMinor, ProbeAlloc, IsrInv, StageType
<1>4. ASSUME NEW d \in Cards, ProbeTake(d)
      PROVE  IsrInv'
  BY <1>4, TakeSteps DEF ProbeTake, Gains, IsrInv, StageType
<1>5. ASSUME NEW d \in Cards, ProbeUnwind(d) \/ RemoveStep(d)
      PROVE  IsrInv'
  <2>1. isr' = isr
    BY <1>5 DEF ProbeUnwind, RemoveStep, Drop
  <2>2. \A e \in Cards : "irq" \in res[e] /\ isr[e] => "irq" \in res'[e]
    BY <1>5, UnwindSteps, RemovalSteps DEF Loses, StageType
  <2>3. QED
    BY <2>1, <2>2 DEF IsrInv
<1>6. [Next]_vars => \/ UNCHANGED <<isr, res>>
                     \/ \E d \in Cards : \/ ProbeMinor(d) \/ ProbeUnwind(d) \/ RemoveStep(d)
                                          \/ ProbeTake(d) \/ ProbeAlloc(d)
                                          \/ IsrEnter(d) \/ IsrLeave(d)
  BY DEF Next, vars, Control, Acquire, Step, Keep, Load, Unload, Unloaded,
         Open, Write, Release, OpenMutex, OpenLock, ReleaseLock, OpenCheck, OpenIncr, OpenUnlock,
         OpenDone, WriteDone, ReleaseReset, ReleaseUnlock, OpenInterrupted, Probe, Remove, ProbeFail
<1>7. QED
  BY <1>1, <1>2, <1>3, <1>4, <1>5, <1>6

--------------------------------------------------------------------------------
\* phantom_open with and without phantom_mutex, and phantom_release.
InOpen  == {"o_lock", "o_check", "o_incr", "o_unlock", "o_busy", "o_done", "o_fail"}
Opening == InOpen \cup {"o_mutex"}
Closing == {"c_lock", "c_reset", "c_unlock"}
Places  == Opening \cup Closing \cup {"idle", "w_regs"}

FileType ==
  /\ file \in [Files -> [mode : {"closed", "opening", "open", "closing"},
                         card : Cards \cup {NoCard}]]
  /\ pc \in [Tasks -> Places] /\ on \in [Tasks -> Files \cup {NoFile}]

\* A file that is in use keeps the module in, and the card it is on bound.
UseInv ==
  \A f \in Files : /\ file[f].mode = "closed" <=> file[f].card = NoCard
                   /\ file[f].mode # "closed" => module = "in" /\ ctl[file[f].card] = "bound"

\* What a thread does fits the life of its file, and only writes share one.
ThreadInv ==
  \A t \in Tasks :
    /\ pc[t] = "idle" <=> on[t] = NoFile
    /\ pc[t] \in Opening => file[on[t]].mode = "opening"
    /\ pc[t] \in Closing => file[on[t]].mode = "closing"
    /\ pc[t] = "w_regs" => file[on[t]].mode = "open"
    /\ \A u \in Tasks : u # t /\ on[u] = on[t] => pc[t] \in {"idle", "w_regs"}

FileInv == FileType /\ UseInv /\ ThreadInv

\* Only a loaded module has cards, and only one that goes away gives them up.
ModuleInv ==
  /\ module \in {"out", "in", "going"}
  /\ \A d \in Cards : /\ ctl[d] # "none" => module # "out"
                      /\ ctl[d] \in RemovalAt => module = "going"

\* A thread that moves on inside phantom_open or phantom_release keeps FileInv.
LEMMA ThreadMoves ==
  ASSUME FileInv, NEW t \in Tasks, NEW a, NEW b, Move(t, a, b),
         {a, b} \subseteq Opening \/ {a, b} \subseteq Closing,
         UNCHANGED <<module, ctl, fileVars>>
  PROVE  FileInv'
BY DEF FileInv, FileType, UseInv, ThreadInv, Move, fileVars, Opening, InOpen, Closing, Places

\* Loading, and unloading a module nobody uses, keep FileInv.
LEMMA FileControl ==
  ASSUME FileInv, StageType, UNCHANGED <<fileVars, pc>>,
         UNCHANGED <<module, ctl>> \/ Load \/ Unload \/ Unloaded
  PROVE  FileInv'
<1>1. FileType' /\ ThreadInv'
  BY DEF FileInv, FileType, ThreadInv, fileVars
<1>2. UseInv'
  BY DEF FileInv, UseInv, fileVars, Load, Unload, Unloaded, InUse
<1>3. QED
  BY <1>1, <1>2 DEF FileInv

\* phantom_probe and phantom_remove run for cards without files: they keep FileInv.
LEMMA FileGoto ==
  ASSUME FileInv, StageType, UNCHANGED <<fileVars, pc, module>>, NEW d \in Cards,
         ctl[d] # "bound" \/ module = "going", NEW l, Goto(d, l)
  PROVE  FileInv'
<1>1. FileType' /\ ThreadInv'
  BY DEF FileInv, FileType, ThreadInv, fileVars
<1>2. UseInv'
  BY DEF FileInv, UseInv, fileVars, Goto, StageType
<1>3. QED
  BY <1>1, <1>2 DEF FileInv

\* ModuleInv is inductive: remove is called only for a module that goes away.
LEMMA ModulePreserved ==
  ASSUME StageType, ModuleInv, [Next]_vars
  PROVE  ModuleInv'
<1> USE DEF ModuleInv, StageType
<1>1. CASE UNCHANGED <<module, ctl>>
  BY <1>1
<1>2. CASE Load \/ Unload \/ Unloaded
  BY <1>2 DEF Load, Unload, Unloaded, RemovalAt
<1>3. ASSUME NEW d \in Cards, Probe(d) \/ Remove(d) \/ ProbeMinor(d) \/ ProbeAlloc(d)
      PROVE  ModuleInv'
  BY <1>3 DEF Probe, Remove, ProbeMinor, ProbeAlloc, Goto, RemovalAt
<1>4. ASSUME NEW d \in Cards, ProbeTake(d)
      PROVE  ModuleInv'
  BY <1>4, TakeSteps DEF ProbeTake, Gains, Goto, RemovalAt
<1>5. ASSUME NEW d \in Cards, ProbeFail(d)
      PROVE  ModuleInv'
  BY <1>5, FailSteps DEF ProbeFail, Jumps, Goto, RemovalAt
<1>6. ASSUME NEW d \in Cards, ProbeUnwind(d)
      PROVE  ModuleInv'
  BY <1>6, UnwindSteps DEF ProbeUnwind, Drop, Loses, Goto, RemovalAt
<1>7. ASSUME NEW d \in Cards, RemoveStep(d)
      PROVE  ModuleInv'
  BY <1>7, RemovalSteps DEF RemoveStep, Drop, Loses, Goto, RemovalAt
<1>8. [Next]_vars => \/ UNCHANGED <<module, ctl>> \/ Load \/ Unload \/ Unloaded
                     \/ \E d \in Cards : \/ Probe(d) \/ Remove(d) \/ ProbeMinor(d) \/ ProbeAlloc(d)
                                          \/ ProbeTake(d) \/ ProbeFail(d)
                                          \/ ProbeUnwind(d) \/ RemoveStep(d)
  BY DEF Next, vars, Control, Acquire, Step, Keep, IsrEnter, IsrLeave,
         Open, Write, Release, OpenMutex, OpenLock, ReleaseLock, OpenCheck, OpenIncr, OpenUnlock,
         OpenDone, WriteDone, ReleaseReset, ReleaseUnlock, OpenInterrupted
<1>9. QED
  BY <1>1, <1>2, <1>3, <1>4, <1>5, <1>6, <1>7, <1>8

\* The end of a call keeps FileInv.
LEMMA FileReturn ==
  ASSUME FileInv, NEW t \in Tasks, NEW from \in Places \ {"idle"}, NEW state,
         Return(t, from, state), UNCHANGED <<module, ctl>>,
         \/ state = Closed /\ from # "w_regs"
         \/ state = [file[on[t]] EXCEPT !.mode = "open"] /\ from # "w_regs"
         \/ state = file[on[t]] /\ from = "w_regs"
  PROVE  FileInv'
<1> USE DEF FileInv, FileType, Opening, InOpen, Closing, Places
<1>1. on[t] \in Files /\ pc[t] = from /\ pc' = [pc EXCEPT ![t] = "idle"]
      /\ file' = [file EXCEPT ![on[t]] = state] /\ on' = [on EXCEPT ![t] = NoFile]
  BY DEF ThreadInv, Return, Move
<1>2. file[on[t]].mode # "closed" /\ file[on[t]].card \in Cards
  BY <1>1 DEF ThreadInv, UseInv
<1>3. FileType'
  BY <1>1, <1>2 DEF Closed
<1>4. UseInv'
  BY <1>1, <1>2, <1>3 DEF UseInv, Closed
<1>5. ThreadInv'
  <2>1. SUFFICES ASSUME NEW u \in Tasks
                 PROVE  /\ pc'[u] = "idle" <=> on'[u] = NoFile
                        /\ pc'[u] \in Opening => file'[on'[u]].mode = "opening"
                        /\ pc'[u] \in Closing => file'[on'[u]].mode = "closing"
                        /\ pc'[u] = "w_regs" => file'[on'[u]].mode = "open"
                        /\ \A v \in Tasks : v # u /\ on'[v] = on'[u]
                                             => pc'[u] \in {"idle", "w_regs"}
    BY DEF ThreadInv
  <2>2. CASE u = t
    BY <1>1, <1>3, <2>2
  <2>3. CASE u # t /\ on[u] # on[t]
    BY <1>1, <1>3, <2>3 DEF ThreadInv
  <2>4. CASE u # t /\ on[u] = on[t]
    BY <1>1, <1>3, <2>4 DEF ThreadInv
  <2>5. QED
    BY <2>2, <2>3, <2>4
<1>6. QED
  BY <1>3, <1>4, <1>5

\* chrdev_open finds a bound card of a module that stays: FileInv is kept.
LEMMA FileOpen ==
  ASSUME FileInv, StageType, StageInv, ModuleInv, NEW t \in Tasks, NEW f \in Files,
         NEW d \in Cards, Open(t, f, d)
  PROVE  FileInv'
<1> USE DEF FileInv, FileType, Opening, InOpen, Closing, Places
<1>1. ctl[d] = "bound" /\ module = "in"
  BY DEF Open, StageInv, ModuleInv, RemovalAt, EnabledAt, MinorAt, RegionsAt, PhtAt, CaddrAt,
         IaddrAt, IrqAt, CdevAt
<1>2. /\ file[f].mode = "closed" /\ pc[t] = "idle" /\ pc' = [pc EXCEPT ![t] = "o_mutex"]
      /\ file' = [file EXCEPT ![f] = [mode |-> "opening", card |-> d]]
      /\ on' = [on EXCEPT ![t] = f] /\ module' = module /\ ctl' = ctl
  BY DEF Open, Move, Keep
<1>3. FileType'
  BY <1>2
<1>4. \A u \in Tasks : on[u] # f
  BY <1>2, PhantomAssumption DEF ThreadInv
<1>5. UseInv'
  BY <1>1, <1>2, PhantomAssumption DEF UseInv
<1>6. ThreadInv'
  BY <1>2, <1>3, <1>4, PhantomAssumption DEF ThreadInv
<1>7. QED
  BY <1>3, <1>5, <1>6

\* The start of phantom_write keeps FileInv.
LEMMA FileWrite ==
  ASSUME FileInv, NEW t \in Tasks, NEW f \in Files, Write(t, f)
  PROVE  FileInv'
<1> USE DEF FileInv, FileType, Opening, InOpen, Closing, Places
<1>1. /\ file[f].mode = "open" /\ pc[t] = "idle" /\ pc' = [pc EXCEPT ![t] = "w_regs"]
      /\ file' = file
      /\ on' = [on EXCEPT ![t] = f] /\ module' = module /\ ctl' = ctl
  BY DEF Write, Move, Keep
<1>2. FileType' /\ UseInv'
  BY <1>1 DEF UseInv
<1>3. ThreadInv'
  <2>1. \A u \in Tasks : on[u] = f => pc[u] = "w_regs"
    BY <1>1, PhantomAssumption DEF ThreadInv
  <2>2. QED
    BY <1>1, <2>1, PhantomAssumption DEF ThreadInv
<1>4. QED
  BY <1>2, <1>3

\* The start of phantom_release keeps FileInv: no other call on the file is left.
LEMMA FileRelease ==
  ASSUME FileInv, NEW t \in Tasks, NEW f \in Files, Release(t, f)
  PROVE  FileInv'
<1> USE DEF FileInv, FileType, Opening, InOpen, Closing, Places
<1>1. /\ file[f].mode = "open" /\ \A u \in Tasks : on[u] # f
      /\ pc[t] = "idle" /\ pc' = [pc EXCEPT ![t] = "c_lock"]
      /\ file' = [file EXCEPT ![f].mode = "closing"]
      /\ on' = [on EXCEPT ![t] = f] /\ module' = module /\ ctl' = ctl
  BY DEF Release, Move, Keep
<1>2. FileType'
  BY <1>1
<1>3. UseInv'
  BY <1>1 DEF UseInv
<1>4. ThreadInv'
  BY <1>1, <1>2, PhantomAssumption DEF ThreadInv
<1>5. QED
  BY <1>2, <1>3, <1>4

\* FileInv is inductive.
LEMMA FilePreserved ==
  ASSUME StageType, StageInv, ModuleInv, FileInv, [Next]_vars
  PROVE  FileInv'
<1>1. CASE UNCHANGED vars
  BY <1>1, FileControl DEF vars
<1>2. CASE Load \/ Unload \/ Unloaded
  BY <1>2, FileControl DEF Load, Unload, Unloaded
<1>3. ASSUME NEW d \in Cards, IsrEnter(d) \/ IsrLeave(d)
      PROVE  FileInv'
  BY <1>3, FileControl DEF IsrEnter, IsrLeave
<1>4. ASSUME NEW d \in Cards, Probe(d) \/ Remove(d) \/ Control(d)
      PROVE  FileInv'
  <2>1. UNCHANGED <<fileVars, pc>> /\ module' = module
    BY <1>4 DEF Probe, Remove, Control, ProbeMinor, ProbeAlloc, ProbeTake, ProbeFail, ProbeUnwind,
       RemoveStep, Drop
  <2>2. ctl[d] # "bound" \/ module = "going"
    BY <1>4, TakeSteps, FailSteps, UnwindSteps, RemovalSteps
       DEF Probe, Remove, Control, ProbeMinor, ProbeAlloc, Gains, Jumps, Loses
  <2>3. PICK l : Goto(d, l)
    BY <1>4 DEF Probe, Remove, Control, ProbeMinor, ProbeAlloc, ProbeTake, ProbeFail, ProbeUnwind,
       RemoveStep, Drop, Goto
  <2>4. QED
    BY <2>1, <2>2, <2>3, FileGoto
<1>5. ASSUME NEW t \in Tasks,
             \/ OpenMutex(t) \/ OpenLock(t) \/ OpenCheck(t) \/ OpenIncr(t) \/ OpenUnlock(t)
             \/ ReleaseLock(t) \/ ReleaseReset(t)
      PROVE  FileInv'
  BY <1>5, ThreadMoves DEF OpenMutex, OpenLock, OpenCheck, OpenIncr, OpenUnlock, ReleaseLock,
     ReleaseReset, Keep, Opening, InOpen, Closing
<1>6. ASSUME NEW t \in Tasks,
             OpenDone(t) \/ WriteDone(t) \/ ReleaseUnlock(t) \/ OpenInterrupted(t)
      PROVE  FileInv'
  BY <1>6, FileReturn DEF OpenDone, WriteDone, ReleaseUnlock, OpenInterrupted, Keep, Places,
     Opening, InOpen, Closing
<1>7. ASSUME NEW t \in Tasks, NEW f \in Files, Write(t, f) \/ Release(t, f)
      PROVE  FileInv'
  BY <1>7, FileWrite, FileRelease
<1>8. ASSUME NEW t \in Tasks, NEW f \in Files, NEW d \in Cards, Open(t, f, d)
      PROVE  FileInv'
  BY <1>8, FileOpen
<1>9. QED
  BY <1>1, <1>2, <1>3, <1>4, <1>5, <1>6, <1>7, <1>8 DEF Next, Acquire, Step

--------------------------------------------------------------------------------
\* phantom_mutex is held by the one thread between its lock and its unlock in
\* phantom_open; dev->opened is 0 from the check to the increment, and it says
\* whether a file counts.
MutexInv == /\ phantom_mutex \in Tasks \cup {NoTask}
            /\ \A t \in Tasks : pc[t] \in InOpen <=> phantom_mutex = t
CountingAt == {"o_unlock", "o_done", "c_lock", "c_reset"}
Counts(f) == file[f].mode = "open" \/ \E t \in Tasks : on[t] = f /\ pc[t] \in CountingAt
CountInv ==
  /\ opened \in [Cards -> 0 .. 1]
  /\ \A f, g \in Files : Counts(f) /\ Counts(g) /\ file[f].card = file[g].card => f = g
  /\ \A d \in Cards : opened[d] = 1 <=> \E f \in Files : file[f].card = d /\ Counts(f)
  /\ \A t \in Tasks : pc[t] = "o_incr" => opened[Dev(t)] = 0

\* MutexInv is inductive.
LEMMA MutexPreserved ==
  ASSUME FileInv, MutexInv, [Next]_vars
  PROVE  MutexInv'
<1> USE DEF MutexInv, FileInv, FileType
<1>1. CASE UNCHANGED vars
  BY <1>1 DEF vars, openVars
<1>9. CASE Load \/ Unload \/ Unloaded
  BY <1>9 DEF Load, Unload, Unloaded, openVars
<1>10. ASSUME NEW d \in Cards, Probe(d) \/ Remove(d) \/ Control(d) \/ IsrEnter(d) \/ IsrLeave(d)
       PROVE  MutexInv'
  <2>1. UNCHANGED <<phantom_mutex, pc>>
    BY <1>10 DEF Probe, Remove, Control, IsrEnter, IsrLeave, ProbeTake, ProbeMinor, ProbeAlloc,
       ProbeFail, ProbeUnwind, RemoveStep, Drop, openVars
  <2>2. QED
    BY <2>1
<1>2. ASSUME NEW t \in Tasks, OpenMutex(t)
      PROVE  MutexInv'
  BY <1>2, PhantomAssumption DEF OpenMutex, Move, InOpen
<1>3. ASSUME NEW t \in Tasks, OpenDone(t) \/ OpenInterrupted(t)
      PROVE  MutexInv'
  BY <1>3, PhantomAssumption DEF OpenDone, OpenInterrupted, Return, Move, InOpen
<1>4. ASSUME NEW t \in Tasks, NEW a, NEW b, Move(t, a, b), phantom_mutex' = phantom_mutex,
             a \in InOpen <=> b \in InOpen
      PROVE  MutexInv'
  BY <1>4 DEF Move
<1>5. ASSUME NEW t \in Tasks, Step(t) \/ OpenLock(t) \/ ReleaseLock(t)
      PROVE  MutexInv'
  BY <1>3, <1>4, <1>5 DEF Step, OpenLock, ReleaseLock, OpenCheck, OpenIncr, OpenUnlock, WriteDone,
     ReleaseReset, ReleaseUnlock, Return, Keep, openVars, InOpen
<1>6. ASSUME NEW t \in Tasks,
             \/ \E f \in Files, d \in Cards : Open(t, f, d)
             \/ \E f \in Files : Write(t, f) \/ Release(t, f)
      PROVE  MutexInv'
  BY <1>4, <1>6 DEF Open, Write, Release, openVars, InOpen
<1>8. QED
  BY <1>1, <1>2, <1>3, <1>5, <1>6, <1>9, <1>10 DEF Next, Acquire

\* A thread moves on inside phantom_open or phantom_release.
LEMMA CountMove ==
  ASSUME FileInv, CountInv, NEW t \in Tasks, NEW a, NEW b \in Places, Move(t, a, b),
         a \in CountingAt <=> b \in CountingAt, b = "o_incr" => opened[Dev(t)] = 0,
         UNCHANGED <<opened, file, on>>
  PROVE  CountInv'
<1>1. pc[t] = a /\ pc' = [pc EXCEPT ![t] = b]
  BY DEF Move
<1>2. \A u \in Tasks : pc'[u] \in CountingAt <=> pc[u] \in CountingAt
  BY <1>1 DEF FileInv, FileType
<1>3. \A f \in Files : Counts(f)' <=> Counts(f)
  BY <1>2 DEF Counts
<1>4. \A u \in Tasks : pc'[u] = "o_incr" => opened[file[on[u]].card] = 0
  BY <1>1 DEF FileInv, FileType, CountInv, Dev
<1>5. QED
  BY <1>3, <1>4 DEF CountInv, Dev

\* The file of a thread that is inside phantom_open or phantom_release counts
\* exactly if that thread is where it counts.
LEMMA CountAlone ==
  ASSUME FileInv, NEW t \in Tasks, pc[t] \in Opening \cup Closing
  PROVE  Counts(on[t]) <=> pc[t] \in CountingAt
BY DEF FileInv, ThreadInv, Counts, CountingAt, Opening, InOpen, Closing

\* The increment in phantom_open finds dev->opened at 0 and no file that counts.
LEMMA CountIncr ==
  ASSUME FileInv, MutexInv, CountInv, NEW t \in Tasks, OpenIncr(t)
  PROVE  CountInv'
<1>1. /\ pc[t] = "o_incr" /\ pc' = [pc EXCEPT ![t] = "o_unlock"] /\ file' = file /\ on' = on
      /\ opened' = [opened EXCEPT ![Dev(t)] = @ + 1]
  BY DEF OpenIncr, Move, fileVars
<1>2. /\ on[t] \in Files /\ file[on[t]].mode = "opening" /\ Dev(t) \in Cards
      /\ ~Counts(on[t])
  BY <1>1, CountAlone, PhantomAssumption
     DEF FileInv, FileType, ThreadInv, UseInv, Opening, InOpen, Dev, CountingAt
<1>3. \A f \in Files : Counts(f)' <=> Counts(f) \/ f = on[t]
  <2>1. \A u \in Tasks : pc'[u] \in CountingAt <=> pc[u] \in CountingAt \/ u = t
    BY <1>1 DEF FileInv, FileType, CountingAt
  <2>2. QED
    BY <1>1, <2>1 DEF Counts
<1>4. opened[Dev(t)] = 0 /\ opened'[Dev(t)] = 1 /\ opened' \in [Cards -> 0 .. 1]
      /\ \A d \in Cards : d # Dev(t) => opened'[d] = opened[d]
  BY <1>1, <1>2 DEF CountInv
<1>5. \A f \in Files : file[f].card = Dev(t) => ~Counts(f)
  BY <1>2, <1>4 DEF CountInv
<1>6. \A f, g \in Files : Counts(f)' /\ Counts(g)' /\ file'[f].card = file'[g].card => f = g
  BY <1>1, <1>3, <1>5 DEF CountInv, Dev
<1>7. \A d \in Cards : opened'[d] = 1 <=> \E f \in Files : file'[f].card = d /\ Counts(f)'
  BY <1>1, <1>2, <1>3, <1>4 DEF CountInv, Dev
<1>8. \A u \in Tasks : pc'[u] # "o_incr"
  BY <1>1 DEF FileInv, FileType, MutexInv, InOpen
<1>9. QED
  BY <1>4, <1>6, <1>7, <1>8 DEF CountInv

\* The reset in phantom_release takes away the one file that counts.
LEMMA CountReset ==
  ASSUME FileInv, CountInv, NEW t \in Tasks, ReleaseReset(t)
  PROVE  CountInv'
<1>1. /\ pc[t] = "c_reset" /\ pc' = [pc EXCEPT ![t] = "c_unlock"] /\ file' = file /\ on' = on
      /\ opened' = [opened EXCEPT ![Dev(t)] = 0]
  BY DEF ReleaseReset, Move, fileVars
<1>2. /\ on[t] \in Files /\ file[on[t]].mode = "closing" /\ Dev(t) \in Cards /\ Counts(on[t])
  BY <1>1, CountAlone, PhantomAssumption
     DEF FileInv, FileType, ThreadInv, UseInv, Closing, Dev, CountingAt
<1>3. \A f \in Files : Counts(f)' <=> Counts(f) /\ f # on[t]
  <2>1. \A u \in Tasks : pc'[u] \in CountingAt <=> pc[u] \in CountingAt /\ u # t
    BY <1>1 DEF FileInv, FileType, CountingAt
  <2>2. \A u \in Tasks : u # t /\ on[u] = on[t] => pc[u] \notin CountingAt
    BY <1>1 DEF FileInv, ThreadInv, CountingAt
  <2>3. QED
    BY <1>1, <1>2, <2>1, <2>2 DEF Counts
<1>4. opened'[Dev(t)] = 0 /\ opened' \in [Cards -> 0 .. 1]
      /\ \A d \in Cards : d # Dev(t) => opened'[d] = opened[d]
  BY <1>1, <1>2 DEF CountInv
<1>5. \A f \in Files : file[f].card = Dev(t) => ~Counts(f)'
  BY <1>2, <1>3 DEF CountInv, Dev
<1>6. \A f, g \in Files : Counts(f)' /\ Counts(g)' /\ file'[f].card = file'[g].card => f = g
  BY <1>1, <1>3 DEF CountInv
<1>7. \A d \in Cards : opened'[d] = 1 <=> \E f \in Files : file'[f].card = d /\ Counts(f)'
  BY <1>1, <1>2, <1>3, <1>4, <1>5 DEF CountInv, Dev
<1>8. \A u \in Tasks : pc'[u] = "o_incr" => pc[u] = "o_incr" /\ opened'[Dev(u)'] = 0
  BY <1>1, <1>4 DEF FileInv, FileType, CountInv, Dev, ThreadInv, UseInv, Opening, InOpen
<1>9. QED
  BY <1>4, <1>6, <1>7, <1>8 DEF CountInv

\* The end of a call changes neither dev->opened nor which files count.
LEMMA CountReturn ==
  ASSUME FileInv, CountInv, NEW t \in Tasks, NEW from, NEW state, Return(t, from, state),
         opened' = opened,
         \/ from \in (Opening \cup Closing) \ CountingAt /\ state = Closed
         \/ from = "o_done" /\ state = [file[on[t]] EXCEPT !.mode = "open"]
         \/ from = "w_regs" /\ state = file[on[t]]
  PROVE  CountInv'
<1>1. /\ pc[t] = from /\ pc' = [pc EXCEPT ![t] = "idle"]
      /\ file' = [file EXCEPT ![on[t]] = state] /\ on' = [on EXCEPT ![t] = NoFile]
  BY DEF Return, Move
<1>2. on[t] \in Files /\ from # "idle"
  BY <1>1 DEF FileInv, FileType, ThreadInv, Opening, InOpen, Closing
<1>3. \A f \in Files : f # on[t] => file'[f] = file[f]
  BY <1>1, <1>2 DEF FileInv, FileType
<1>4. \A u \in Tasks : u # t => pc'[u] = pc[u] /\ on'[u] = on[u]
  BY <1>1 DEF FileInv, FileType
<1>5. pc'[t] = "idle" /\ on'[t] = NoFile /\ file'[on[t]] = state
  BY <1>1, <1>2 DEF FileInv, FileType
<1>6. \A f \in Files : f # on[t] => (Counts(f)' <=> Counts(f))
  BY <1>3, <1>4, <1>5, PhantomAssumption DEF Counts
<1>7. /\ Counts(on[t]) <=> from = "o_done" \/ from = "w_regs"
      /\ \A f \in Files : f = on[t] => (Counts(f)' <=> Counts(f))
  <2>1. CASE from \in (Opening \cup Closing) \ CountingAt /\ state = Closed
    <3>1. \A u \in Tasks : u # t => on[u] # on[t]
      BY <1>1, <2>1 DEF FileInv, ThreadInv, Opening, InOpen, Closing
    <3>2. ~Counts(on[t])
      BY <1>1, <2>1, CountAlone
    <3>3. \A f \in Files : f = on[t] => ~Counts(f)'
      BY <1>2, <1>4, <1>5, <2>1, <3>1, PhantomAssumption DEF Counts, Closed
    <3>4. QED
      BY <2>1, <3>2, <3>3 DEF CountingAt, Opening, InOpen, Closing
  <2>2. CASE from = "o_done" /\ state = [file[on[t]] EXCEPT !.mode = "open"]
    <3>1. Counts(on[t])
      BY <1>1, <2>2 DEF Counts, CountingAt
    <3>2. state.mode = "open"
      BY <1>2, <2>2 DEF FileInv, FileType
    <3>3. QED
      BY <1>5, <2>2, <3>1, <3>2 DEF Counts
  <2>3. CASE from = "w_regs" /\ state = file[on[t]]
    <3>1. file[on[t]].mode = "open"
      BY <1>1, <2>3 DEF FileInv, ThreadInv
    <3>2. QED
      BY <1>5, <2>3, <3>1 DEF Counts
  <2>4. QED
    BY <2>1, <2>2, <2>3
<1>8. from = "o_done" \/ from = "w_regs" => state.card = file[on[t]].card
  BY <1>2 DEF FileInv, FileType, Opening, InOpen, Closing, CountingAt
<1>9. \A f \in Files : (Counts(f)' <=> Counts(f)) /\ (Counts(f) => file'[f].card = file[f].card)
  BY <1>3, <1>5, <1>6, <1>7, <1>8
<1>10. \A u \in Tasks : pc'[u] = "o_incr" => opened'[Dev(u)'] = 0
  <2>1. SUFFICES ASSUME NEW u \in Tasks, pc'[u] = "o_incr"
                 PROVE  opened'[Dev(u)'] = 0
    OBVIOUS
  <2>2. u # t /\ pc[u] = "o_incr" /\ on'[u] = on[u]
    BY <1>4, <1>5, <2>1
  <2>3. on[u] # on[t] /\ on[u] \in Files
    BY <2>2 DEF FileInv, FileType, ThreadInv
  <2>4. QED
    BY <1>3, <2>2, <2>3 DEF CountInv, Dev
<1>11. QED
  BY <1>9, <1>10 DEF CountInv

\* The start of a call changes neither dev->opened nor which files count.
LEMMA CountEnter ==
  ASSUME FileInv, CountInv, NEW t \in Tasks, NEW f \in Files,
         Write(t, f) \/ Release(t, f) \/ \E d \in Cards : Open(t, f, d)
  PROVE  CountInv'
<1>1. /\ pc[t] = "idle" /\ on[t] = NoFile /\ opened' = opened
      /\ on' = [on EXCEPT ![t] = f]
  BY DEF Write, Release, Open, Move, openVars, FileInv, ThreadInv
<1>2. \A g \in Files : g # f => file'[g] = file[g]
  BY DEF Write, Release, Open, FileInv, FileType
<1>3. \A u \in Tasks : u # t => pc'[u] = pc[u] /\ on'[u] = on[u]
  BY <1>1 DEF Write, Release, Open, Move, FileInv, FileType
<1>4. on'[t] = f /\ pc'[t] \in {"w_regs", "c_lock", "o_mutex"}
  BY <1>1 DEF Write, Release, Open, Move, FileInv, FileType
<1>5. \A g \in Files : g # f => (Counts(g)' <=> Counts(g))
  BY <1>1, <1>2, <1>3, <1>4, PhantomAssumption DEF Counts
<1>6. /\ Counts(f)' <=> Counts(f)
      /\ Counts(f) => file'[f].card = file[f].card
      /\ \A u \in Tasks : on[u] = f => pc[u] # "o_incr"
  <2>1. CASE Write(t, f)
    BY <2>1 DEF Write, Counts, FileInv, ThreadInv, Opening, InOpen
  <2>2. CASE Release(t, f)
    <3>1. file[f].mode = "open" /\ file' = [file EXCEPT ![f].mode = "closing"] /\ pc'[t] = "c_lock"
      BY <2>2 DEF Release, Move, FileInv, FileType
    <3>2. Counts(f) /\ Counts(f)'
      BY <1>4, <3>1 DEF Counts, CountingAt
    <3>3. file'[f].card = file[f].card
      BY <3>1 DEF FileInv, FileType
    <3>4. QED
      BY <2>2, <3>2, <3>3 DEF Release
  <2>3. ASSUME NEW d \in Cards, Open(t, f, d)
        PROVE  /\ Counts(f)' <=> Counts(f)
               /\ Counts(f) => file'[f].card = file[f].card
               /\ \A u \in Tasks : on[u] = f => pc[u] # "o_incr"
    <3>1. /\ file[f].mode = "closed" /\ pc'[t] = "o_mutex"
          /\ file' = [file EXCEPT ![f] = [mode |-> "opening", card |-> d]]
      BY <2>3 DEF Open, Move, FileInv, FileType
    <3>2. \A u \in Tasks : on[u] # f
      BY <3>1, PhantomAssumption DEF FileInv, FileType, ThreadInv, Places
    <3>3. ~Counts(f)
      BY <3>1, <3>2 DEF Counts
    <3>4. file'[f].mode = "opening"
      BY <3>1 DEF FileInv, FileType
    <3>5. ~Counts(f)'
      BY <1>3, <3>1, <3>2, <3>4 DEF Counts, CountingAt
    <3>6. QED
      BY <3>2, <3>3, <3>5
  <2>4. QED
    BY <2>1, <2>2, <2>3
<1>7. \A g \in Files : (Counts(g)' <=> Counts(g)) /\ (Counts(g) => file'[g].card = file[g].card)
  BY <1>2, <1>5, <1>6
<1>8. \A u \in Tasks : pc'[u] = "o_incr" => opened'[Dev(u)'] = 0
  <2>1. SUFFICES ASSUME NEW u \in Tasks, pc'[u] = "o_incr"
                 PROVE  opened'[Dev(u)'] = 0
    OBVIOUS
  <2>2. u # t /\ pc[u] = "o_incr" /\ on'[u] = on[u]
    BY <1>3, <1>4, <2>1
  <2>3. on[u] # f /\ on[u] \in Files
    BY <1>6, <2>2 DEF FileInv, FileType, ThreadInv
  <2>4. QED
    BY <1>1, <1>2, <2>2, <2>3 DEF CountInv, Dev
<1>9. QED
  BY <1>1, <1>7, <1>8 DEF CountInv

\* CountInv is inductive.
LEMMA CountPreserved ==
  ASSUME StageType, FileInv, MutexInv, CountInv, [Next]_vars
  PROVE  CountInv'
<1>1. CASE UNCHANGED <<opened, file, on, pc>>
  BY <1>1 DEF CountInv, Counts, Dev
<1>2. CASE UNCHANGED vars \/ Load \/ Unload \/ Unloaded
  BY <1>1, <1>2 DEF vars, Load, Unload, Unloaded, openVars, fileVars
<1>3. ASSUME NEW d \in Cards, ProbeAlloc(d)
      PROVE  CountInv'
  <2>1. /\ opened' = [opened EXCEPT ![d] = 0] /\ ctl[d] = "p_alloc"
        /\ file' = file /\ on' = on /\ pc' = pc
    BY <1>3 DEF ProbeAlloc, fileVars
  <2>2. \A f \in Files : file[f].card # d
    BY <2>1, PhantomAssumption DEF FileInv, FileType, UseInv
  <2>3. opened[d] = 0
    BY <2>2 DEF CountInv
  <2>4. opened' = opened
    BY <2>1, <2>3 DEF CountInv
  <2>5. QED
    BY <1>1, <2>1, <2>4
<1>4. ASSUME NEW d \in Cards,
             \/ Probe(d) \/ Remove(d) \/ ProbeTake(d) \/ ProbeMinor(d) \/ ProbeFail(d)
             \/ ProbeUnwind(d) \/ RemoveStep(d) \/ IsrEnter(d) \/ IsrLeave(d)
      PROVE  CountInv'
  BY <1>1, <1>4 DEF Probe, Remove, IsrEnter, IsrLeave, ProbeTake, ProbeMinor, ProbeFail,
     ProbeUnwind, RemoveStep, Drop, openVars, fileVars
<1>5. ASSUME NEW t \in Tasks,
             OpenMutex(t) \/ OpenLock(t) \/ OpenCheck(t) \/ OpenUnlock(t) \/ ReleaseLock(t)
      PROVE  CountInv'
  <2>1. UNCHANGED <<opened, file, on>>
    BY <1>5 DEF OpenMutex, OpenLock, OpenCheck, OpenUnlock, ReleaseLock, openVars, fileVars
  <2>2. \/ Move(t, "o_mutex", "o_lock") \/ Move(t, "o_lock", "o_check")
        \/ Move(t, "o_check", "o_busy") \/ Move(t, "o_busy", "o_fail")
        \/ Move(t, "o_check", "o_incr") /\ opened[Dev(t)] = 0
        \/ Move(t, "o_unlock", "o_done") \/ Move(t, "c_lock", "c_reset")
    BY <1>5 DEF OpenMutex, OpenLock, OpenCheck, OpenUnlock, ReleaseLock
  <2>3. QED
    BY <2>1, <2>2, CountMove DEF Places, Opening, InOpen, Closing, CountingAt
<1>6. ASSUME NEW t \in Tasks,
             OpenDone(t) \/ WriteDone(t) \/ ReleaseUnlock(t) \/ OpenInterrupted(t)
      PROVE  CountInv'
  BY <1>6, CountReturn DEF OpenDone, WriteDone, ReleaseUnlock, OpenInterrupted, Opening, InOpen,
     Closing, CountingAt, openVars
<1>7. QED
  BY <1>2, <1>3, <1>4, <1>5, <1>6, CountIncr, CountReset, CountEnter
     DEF Next, Control, Acquire, Step

--------------------------------------------------------------------------------
\* The owners of the open_lock of each card.
LockType == open_lock \in [Cards -> Tasks \cup {NoTask}]

\* The owner of dev->open_lock is always a thread or nobody.
LEMMA LockPreserved ==
  ASSUME LockType, [Next]_vars
  PROVE  LockType'
<1> USE DEF LockType
<1>1. CASE UNCHANGED vars \/ Load \/ Unload \/ Unloaded
  BY <1>1 DEF vars, Load, Unload, Unloaded, openVars
<1>2. ASSUME NEW d \in Cards, Probe(d) \/ Remove(d) \/ Control(d) \/ IsrEnter(d) \/ IsrLeave(d)
      PROVE  LockType'
  BY <1>2 DEF Probe, Remove, Control, IsrEnter, IsrLeave, ProbeTake, ProbeMinor, ProbeAlloc,
     ProbeFail, ProbeUnwind, RemoveStep, Drop, openVars
<1>3. ASSUME NEW t \in Tasks, Acquire(t) \/ Step(t) \/ OpenInterrupted(t)
      PROVE  LockType'
  BY <1>3 DEF Acquire, Step, OpenInterrupted, OpenMutex, OpenLock, ReleaseLock, OpenCheck, OpenIncr,
     OpenUnlock, OpenDone, WriteDone, ReleaseReset, ReleaseUnlock, openVars
<1>4. ASSUME NEW t \in Tasks, NEW f \in Files,
             Write(t, f) \/ Release(t, f) \/ \E d \in Cards : Open(t, f, d)
      PROVE  LockType'
  BY <1>4 DEF Write, Release, Open, openVars
<1>5. QED
  BY <1>1, <1>2, <1>3, <1>4 DEF Next

--------------------------------------------------------------------------------
\* The inductive invariant.
Inv == /\ StageType /\ StageInv /\ ModuleInv /\ MinorInv /\ IsrInv /\ FileInv /\ MutexInv
       /\ CountInv /\ LockType

\* The inductive invariant holds before the module is loaded.
LEMMA InvInit == Init => Inv
<1>1. SUFFICES ASSUME Init
               PROVE  Inv
  OBVIOUS
<1>2. StageType /\ StageInv /\ ModuleInv
  BY <1>1 DEF Init, StageType, StageInv, ModuleInv, Labels, Resources, EnabledAt, MinorAt,
     RegionsAt, PhtAt, CaddrAt, IaddrAt, IrqAt, CdevAt, RemovalAt
<1>3. MinorInv /\ IsrInv
  BY <1>1, PhantomAssumption DEF Init, MinorInv, MinorsUnique, Owns, Minors, IsrInv
<1>4. FileInv
  BY <1>1 DEF Init, FileInv, FileType, UseInv, ThreadInv, Closed, Places, Opening, InOpen, Closing
<1>5. MutexInv
  BY <1>1, PhantomAssumption DEF Init, MutexInv, InOpen
<1>6. CountInv
  BY <1>1 DEF Init, CountInv, Counts, CountingAt, Closed
<1>7. LockType
  BY <1>1 DEF Init, LockType
<1>8. QED
  BY <1>2, <1>3, <1>4, <1>5, <1>6, <1>7 DEF Inv

\* The inductive invariant is preserved by every step.
LEMMA InvNext == Inv /\ [Next]_vars => Inv'
BY StagePreserved, ModulePreserved, MinorPreserved, IsrPreserved, FilePreserved, MutexPreserved,
   CountPreserved, LockPreserved DEF Inv

\* Every variable keeps its type: in particular the minor number phantom_get_free
\* finds is an index into phantom_devices, and dev->opened is 0 or 1.
THEOREM TypeCorrect == Spec => []TypeOK
<1>1. Inv => TypeOK
  <2>1. SUFFICES ASSUME Inv
                 PROVE  TypeOK
    OBVIOUS
  <2>2. Labels = {"none", "p_minor", "p_alloc", "bound"} \cup DOMAIN Take \cup DOMAIN Unwind
                   \cup DOMAIN Removal
    BY DEF Labels, EnabledAt, Take, Unwind, Removal
  <2>3. Places = {"idle", "w_regs", "o_mutex", "o_lock", "o_check", "o_incr", "o_unlock",
                  "o_busy", "o_done", "o_fail", "c_lock", "c_reset", "c_unlock"}
    BY DEF Places, Opening, InOpen, Closing
  <2>4. QED
    BY <2>1, <2>2, <2>3 DEF TypeOK, Inv, StageType, ModuleInv, MinorInv, IsrInv, FileInv, FileType,
       MutexInv, CountInv, LockType, Resources
<1>2. QED
  BY <1>1, InvInit, InvNext, PTL DEF Spec

\* Whichever step of phantom_probe fails, the cascade gives back everything that
\* was taken, and phantom_remove gives back everything probe took.
THEOREM NoLeaks == Spec => []NothingLeaked
<1>1. Inv => NothingLeaked
  BY DEF Inv, StageType, StageInv, NothingLeaked, Resources, EnabledAt, MinorAt, RegionsAt, PhtAt,
     CaddrAt, IaddrAt, IrqAt, CdevAt
<1>2. QED
  BY <1>1, InvInit, InvNext, PTL DEF Spec

\* No two cards have the same minor number, and phantom_devices is right about
\* which numbers are free, through every failed probe and every remove.
THEOREM OwnMinors == Spec => []MinorsUnique
<1>1. Inv => MinorsUnique
  BY DEF Inv, MinorInv
<1>2. QED
  BY <1>1, InvInit, InvNext, PTL DEF Spec

\* Neither phantom_isr nor a call on an open file ever uses a freed device or an
\* unmapped iaddr.
THEOREM AlwaysUsable == Spec => []DeviceUsable
<1>1. Inv => DeviceUsable
  <2>1. SUFFICES ASSUME Inv, NEW d \in Cards, isr[d] \/ \E f \in Files : file[f].card = d
                 PROVE  {"pht", "iaddr"} \subseteq res[d]
    BY DEF DeviceUsable
  <2>2. ctl[d] \in IrqAt
    <3>1. CASE isr[d]
      BY <2>1, <3>1 DEF Inv, IsrInv, StageInv
    <3>2. CASE \E f \in Files : file[f].card = d
      <4>1. ctl[d] = "bound"
        BY <2>1, <3>2, PhantomAssumption DEF Inv, FileInv, UseInv
      <4>2. QED
        BY <4>1 DEF IrqAt, IaddrAt, CaddrAt, PhtAt, RegionsAt, MinorAt, EnabledAt
    <3>3. QED
      BY <2>1, <3>1, <3>2
  <2>3. ctl[d] \in PhtAt /\ ctl[d] \in IaddrAt
    BY <2>2 DEF IrqAt, IaddrAt, CaddrAt
  <2>4. QED
    BY <2>1, <2>3 DEF Inv, StageInv
<1>2. QED
  BY <1>1, InvInit, InvNext, PTL DEF Spec

\* phantom_open lets at most one file be open on a card, and dev->opened tells,
\* whatever opens, signals and releases race.
THEOREM OneOpenFile == Spec => []OneOpener
<1>1. Inv => OneOpener
  <2>1. SUFFICES ASSUME Inv
                 PROVE  OneOpener
    OBVIOUS
  <2>2. \A d \in Cards : Holders(d) = {f \in Files : file[f].card = d /\ Counts(f)}
    BY DEF Holders, Counts, CountingAt
  <2>3. \A d \in Cards, f, g \in Files : f \in Holders(d) /\ g \in Holders(d) => f = g
    BY <2>1, <2>2 DEF Inv, CountInv
  <2>4. \A d \in Cards : opened[d] \in {0, 1} /\ (opened[d] = 1 <=> Holders(d) # {})
    <3>1. SUFFICES ASSUME NEW d \in Cards
                   PROVE  opened[d] \in {0, 1} /\ (opened[d] = 1 <=> Holders(d) # {})
      OBVIOUS
    <3>2. Holders(d) # {} <=> \E f \in Files : file[f].card = d /\ Counts(f)
      BY <2>2
    <3>3. opened[d] \in 0 .. 1 /\ (opened[d] = 1 <=> \E f \in Files : file[f].card = d /\ Counts(f))
      BY <2>1 DEF Inv, CountInv
    <3>4. QED
      BY <3>2, <3>3
  <2>5. \A d \in Cards : Holders(d) \subseteq Files
    BY DEF Holders
  <2>6. QED
    BY <2>3, <2>4, <2>5 DEF OneOpener
<1>2. QED
  BY <1>1, InvInit, InvNext, PTL DEF Spec

================================================================================
