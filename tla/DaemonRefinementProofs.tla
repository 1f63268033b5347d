----------------------- MODULE DaemonRefinementProofs -----------------------
(***************************************************************************)
(* The daemon implements the handle promise of HandleRegistry: under the  *)
(* refinement mapping of Daemon (the persisted handles are the identifiers *)
(* of /etc/lact.json, the served ones those of the controller map), every *)
(* start is a Start, SetConfig a Replace, every exit a Stop, a reboot a   *)
(* Replug and every other request a stutter.                               *)
(*                                                                         *)
(* It holds on the code path where nothing fails (no I/O faults), the      *)
(* daemon is privileged, every card passes the card-name filter and the    *)
(* clients send one entry per card; each of these is broken by a violation *)
(* run of the project when it is dropped.                                  *)
(***************************************************************************)
EXTENDS DaemonProofs

(* The conditions under which the promise is kept. *)
RefinementHyp ==
    /\ ~Faults /\ ~Unprivileged /\ AllListed
    /\ \A c \in ClientConfigs : IsInjective(Idents(c))

(* The invariant the refinement rests on: the persisted identifiers never  *)
(* name one card twice, and the daemon is privileged.                      *)
RInv == Inv /\ privileged = TRUE /\ IsInjective(Idents(disk))

(* Inserting an entry with the identifier already there leaves the         *)
(* identifiers.                                                            *)
LEMMA IdentsInsert ==
    ASSUME NEW m, NEW k \in DOMAIN m, NEW v, v.ident = m[k].ident
    PROVE  Idents(Insert(m, k, v)) = Idents(m)
BY DEF Insert, Idents

(* The identifiers of a reconciled store are the old ones extended by the  *)
(* outcome, and the controllers' are the outcome itself.                   *)
LEMMA IdentsReconcile ==
    ASSUME NEW cfg, IsStore(cfg), present \subseteq Devices,
           NEW b \in Assignments(cfg)
    PROVE  /\ Idents(NewStore(cfg, b)) = Registry!Extend(Idents(cfg), b)
           /\ Idents(NewControllers(cfg, b)) = b
<1>1. /\ DOMAIN b \subseteq Handles
      /\ \A h \in DOMAIN b \cap DOMAIN cfg : cfg[h].ident = b[h]
  BY AssignmentShape
<1>2. /\ DOMAIN NewControllers(cfg, b) = DOMAIN b
      /\ \A h \in DOMAIN b : NewControllers(cfg, b)[h].ident = b[h]
  BY ReconcileStore
<1>3. Idents(NewStore(cfg, b)) = Registry!Extend(Idents(cfg), b)
  BY <1>1 DEF Idents, NewStore, Registry!Extend
<1>4. Idents(NewControllers(cfg, b)) = b
  <2>1. b \in [DOMAIN b -> present]
    BY AssignmentShape
  <2>. QED
    BY <1>2, <2>1 DEF Idents
<1>. QED
  BY <1>3, <1>4

(* An outcome of the 'entries loop over a store with one entry per card    *)
(* registers the present cards as HandleRegistry's Start does.             *)
LEMMA AssignmentReconciles ==
    ASSUME NEW cfg, IsStore(cfg), IsInjective(Idents(cfg)), AllListed,
           present \subseteq Devices, NEW b \in Assignments(cfg)
    PROVE  /\ b \in Registry!Registrations
           /\ Registry!Reconciles(Idents(cfg), b)
<1>1. /\ DOMAIN b \subseteq Handles
      /\ b \in [DOMAIN b -> present]
      /\ IsInjective(b) /\ Range(b) = Listed
      /\ \A h \in DOMAIN b \cap DOMAIN cfg : cfg[h].ident = b[h]
  BY AssignmentShape
<1>2. Listed = present
  BY DEF AllListed, Listed
<1>3. b \in Registry!Registrations
  <2>1. b \in UNION {[H -> present] : H \in SUBSET Handles}
    BY <1>1
  <2>. QED
    BY <1>1, <1>2, <2>1
       DEF Registry!Registrations, Registry!IsInjective, Registry!Range, IsInjective, Range
<1>4. Registry!Agree(Idents(cfg), b)
  BY <1>1 DEF Registry!Agree, Idents
<1>5. ASSUME NEW h \in DOMAIN cfg, cfg[h].ident \in present
      PROVE  h \in DOMAIN b
  <2>1. PICK k \in DOMAIN b : b[k] = cfg[h].ident
    BY <1>1, <1>2, <1>5 DEF Range
  <2>2. CASE k \in DOMAIN cfg
    <3>1. cfg[k].ident = cfg[h].ident
      BY <1>1, <2>1, <2>2
    <3>. QED
      BY <2>1, <2>2, <3>1 DEF IsInjective, Idents
  <2>3. CASE k \notin DOMAIN cfg
    <3>1. Matches(cfg, b[k]) = {}
      BY <2>1, <2>3 DEF Assignments
    <3>. QED
      BY <2>1, <3>1 DEF Matches
  <2>. QED
    BY <2>2, <2>3
<1>6. Registry!Reconciles(Idents(cfg), b)
  BY <1>4, <1>5 DEF Registry!Reconciles, Idents
<1>. QED
  BY <1>3, <1>6

(* Extending a registry with one handle per card by such an outcome keeps  *)
(* one handle per card.                                                    *)
LEMMA ExtendInjective ==
    ASSUME NEW r, NEW l, IsInjective(r), IsInjective(l),
           Registry!Agree(r, l),
           \A h \in DOMAIN r : r[h] \in Range(l) => h \in DOMAIN l
    PROVE  IsInjective(Registry!Extend(r, l))
<1>. DEFINE e == Registry!Extend(r, l)
<1>. SUFFICES ASSUME NEW h1 \in DOMAIN e, NEW h2 \in DOMAIN e, e[h1] = e[h2]
              PROVE  h1 = h2
  BY DEF IsInjective
<1>1. \A h \in DOMAIN l : e[h] = l[h]
  BY DEF Registry!Extend, Registry!Agree
<1>2. \A h \in DOMAIN r \ DOMAIN l : e[h] = r[h]
  BY DEF Registry!Extend
<1>3. DOMAIN e = DOMAIN r \cup DOMAIN l
  BY DEF Registry!Extend
<1>4. ASSUME NEW k1 \in DOMAIN r \ DOMAIN l, NEW k2 \in DOMAIN l, e[k1] = e[k2]
      PROVE  FALSE
  BY <1>1, <1>2, <1>4 DEF Range
<1>. QED
  BY <1>1, <1>2, <1>3, <1>4 DEF IsInjective

(* What a per-card handler does to /etc/lact.json: nothing, or the save of *)
(* gpu_configs with the controller's entry (same identifier) inserted.     *)
SavesEntry(i) ==
    \/ UNCHANGED disk
    \/ \E s : i \in DOMAIN ctrl /\ disk' = Insert(config, i, [ident |-> ctrl[i].ident, cfg |-> s])

LEMMA AppliedStore ==
    ASSUME NEW i, NEW s, NEW x, Applied(i, s, x)
    PROVE  privileged' = privileged /\ SavesEntry(i)
BY DEF Applied, SavesEntry

(* Every per-card handler leaves the privilege and saves at most its entry. *)
LEMMA HandlerStore ==
    ASSUME NEW i \in Handles,
           \/ GetInfo(i) \/ GetStats(i) \/ GetFanControl(i) \/ GetPowerCap(i)
           \/ StartFanControl(i) \/ StopFanControl(i)
           \/ CommitGPUPowerStates(i) \/ ResetGPUPowerStates(i)
           \/ \E c \in Curves \cup {EmptyCurve} : SetFanCurve(i, c)
           \/ \E cap \in CapInputs : SetPowerCap(i, cap)
           \/ \E p \in Profiles : SetPowerProfile(i, p)
           \/ \E clk \in ClockInputs : SetGPUMaxPowerState(i, clk) \/ SetVRAMMaxClock(i, clk)
    PROVE  privileged' = privileged /\ SavesEntry(i)
<1>1. CASE GetInfo(i) \/ GetStats(i) \/ GetFanControl(i) \/ GetPowerCap(i)
  BY <1>1 DEF GetInfo, GetStats, GetFanControl, GetPowerCap, Unknown, Found, Fails,
     Rejected, Reply, SavesEntry
<1>2. CASE StartFanControl(i)
  BY <1>2, AppliedStore DEF StartFanControl, Unknown, Fails, Rejected, Reply, SavesEntry
<1>3. CASE StopFanControl(i)
  BY <1>3, AppliedStore DEF StopFanControl, Unknown, Fails, Rejected, Reply, SavesEntry
<1>4. CASE CommitGPUPowerStates(i)
  BY <1>4, AppliedStore DEF CommitGPUPowerStates, Unknown, Reply, SavesEntry
<1>5. CASE ResetGPUPowerStates(i)
  BY <1>5, AppliedStore DEF ResetGPUPowerStates, Unknown, Fails, Rejected, Reply, SavesEntry
<1>6. CASE \E c \in Curves \cup {EmptyCurve} : SetFanCurve(i, c)
  BY <1>6, AppliedStore DEF SetFanCurve, Unknown, Rejected, Reply, SavesEntry
<1>7. CASE \E cap \in CapInputs : SetPowerCap(i, cap)
  BY <1>7, AppliedStore DEF SetPowerCap, Unknown, Fails, Rejected, Reply, SavesEntry
<1>8. CASE \E p \in Profiles : SetPowerProfile(i, p)
  BY <1>8, AppliedStore DEF SetPowerProfile, Unknown, Fails, Rejected, Reply, SavesEntry
<1>9. CASE \E clk \in ClockInputs : SetGPUMaxPowerState(i, clk)
  BY <1>9, AppliedStore DEF SetGPUMaxPowerState, Unknown, Rejected, Reply, SavesEntry
<1>10. CASE \E clk \in ClockInputs : SetVRAMMaxClock(i, clk)
  BY <1>10, AppliedStore DEF SetVRAMMaxClock, Unknown, Rejected, Reply, SavesEntry
<1>. QED
  BY <1>1, <1>2, <1>3, <1>4, <1>5, <1>6, <1>7, <1>8, <1>9, <1>10

(* A privileged daemon's handler keeps the persisted identifiers. *)
LEMMA SavedIdents ==
    ASSUME RInv, running, NEW i, SavesEntry(i)
    PROVE  Idents(disk') = Idents(disk)
<1>1. CASE UNCHANGED disk
  BY <1>1
<1>2. CASE \E s : i \in DOMAIN ctrl /\ disk' = Insert(config, i, [ident |-> ctrl[i].ident, cfg |-> s])
  <2>1. PICK s : i \in DOMAIN ctrl /\ disk' = Insert(config, i, [ident |-> ctrl[i].ident, cfg |-> s])
    BY <1>2
  <2>2. i \in DOMAIN config /\ config[i] = ctrl[i] /\ disk = config
    BY <2>1 DEF RInv, Inv, StorePersistsLive
  <2>3. Idents(Insert(config, i, [ident |-> ctrl[i].ident, cfg |-> s])) = Idents(config)
    BY <2>2, IdentsInsert
  <2>. QED
    BY <2>1, <2>2, <2>3
<1>. QED
  BY <1>1, <1>2 DEF SavesEntry

(* A step of the serving daemon that keeps the cards and both handle maps *)
(* is a stutter of the registry, or its Stop.                              *)
LEMMA KeepStep ==
    ASSUME running, running' \in BOOLEAN, present' = present,
           Idents(disk') = Idents(disk), Idents(ctrl') = Idents(ctrl)
    PROVE  [Registry!RegNext]_Registry!regVars
<1>1. CASE running'
  BY <1>1 DEF Registry!regVars
<1>2. CASE ~running'
  BY <1>2 DEF Registry!RegNext, Registry!Stop
<1>. QED
  BY <1>1, <1>2

(* What each step of the daemon is for the registry, and that it keeps     *)
(* the persisted identifiers one per card and the daemon privileged.       *)
LEMMA RefinementStep ==
    ASSUME RefinementHyp, RInv, [Next]_vars
    PROVE  /\ privileged' = TRUE
           /\ IsInjective(Idents(disk'))
           /\ [Registry!RegNext]_Registry!regVars
<1>0. /\ present \subseteq Devices /\ IsStore(disk) /\ IsStore(ctrl) /\ IsStore(config)
      /\ Inv'
  BY NextInv DEF RInv, Inv, TypeOK
<1>1. CASE Restart
  <2>1. StartModes = {TRUE} /\ Readable(TRUE) = {disk}
    BY DEF RefinementHyp, StartModes, Readable
  <2>2. PICK b \in Assignments(disk) :
           /\ config' = NewStore(disk, b)
           /\ privileged' = TRUE
           /\ disk' = config'
           /\ ctrl' = NewControllers(disk, b) /\ running' = TRUE
    BY <1>1, <2>1 DEF Restart, RefinementHyp
  <2>3. /\ b \in Registry!Registrations
        /\ Registry!Reconciles(Idents(disk), b)
    BY <1>0, AssignmentReconciles DEF RInv, RefinementHyp
  <2>4. /\ Idents(disk') = Registry!Extend(Idents(disk), b)
        /\ Idents(ctrl') = b
    BY <1>0, <2>2, IdentsReconcile
  <2>5. IsInjective(b) /\ Range(b) = present
    BY <2>3 DEF Registry!Registrations, Registry!IsInjective, Registry!Range,
       IsInjective, Range
  <2>6. IsInjective(Idents(disk'))
    BY <2>3, <2>4, <2>5, ExtendInjective DEF RInv, Registry!Reconciles
  <2>7. Registry!Start
    BY <1>1, <2>2, <2>3, <2>4 DEF Restart, Registry!Start
  <2>. QED
    BY <2>2, <2>6, <2>7 DEF Registry!RegNext
<1>2. ASSUME NEW new \in ClientConfigs, SetConfig(new)
      PROVE  /\ privileged' = TRUE
             /\ IsInjective(Idents(disk'))
             /\ [Registry!RegNext]_Registry!regVars
  <2>1. ~SaveMayFail
    BY DEF RefinementHyp, SaveMayFail, RInv
  <2>2. PICK b \in Assignments(new) :
           /\ config' = NewStore(new, b)
           /\ disk' = config'
           /\ ctrl' = NewControllers(new, b)
           /\ running' \in BOOLEAN
    BY <1>2, <2>1 DEF SetConfig, Respond
  <2>3. IsStore(new) /\ IsInjective(Idents(new))
    BY DaemonAssumptions DEF RefinementHyp
  <2>4. /\ b \in Registry!Registrations
        /\ Registry!Reconciles(Idents(new), b)
    BY <1>0, <2>3, AssignmentReconciles DEF RefinementHyp
  <2>5. /\ Idents(disk') = Registry!Extend(Idents(new), b)
        /\ Idents(ctrl') = b
    BY <1>0, <2>2, <2>3, IdentsReconcile
  <2>6. IsInjective(b) /\ Range(b) = present
    BY <2>4 DEF Registry!Registrations, Registry!IsInjective, Registry!Range,
       IsInjective, Range
  <2>7. IsInjective(Idents(disk'))
    BY <2>3, <2>4, <2>5, <2>6, ExtendInjective DEF Registry!Reconciles
  <2>8. Idents(new) \in {f \in UNION {[H -> Devices] : H \in SUBSET Handles} :
                          Registry!IsInjective(f)}
    <3>1. Idents(new) \in [DOMAIN new -> Devices] /\ DOMAIN new \in SUBSET Handles
      BY <2>3 DEF IsStore, Idents, Entry
    <3>. QED
      BY <2>3, <3>1 DEF Registry!IsInjective, IsInjective, Idents
  <2>9. Registry!Replace
    BY <1>2, <2>2, <2>4, <2>5, <2>8 DEF SetConfig, Registry!Replace
  <2>. QED
    BY <1>2, <2>7, <2>9 DEF SetConfig, RInv, Registry!RegNext
<1>3. CASE Reboot
  <2>1. Registry!Replug
    BY <1>3 DEF Reboot, Registry!Replug
  <2>. QED
    BY <1>3, <2>1 DEF Reboot, RInv, Registry!RegNext
<1>4. CASE Shutdown \/ ConnectionError
  <2>1. Registry!Stop
    BY <1>4 DEF Shutdown, ConnectionError, Registry!Stop
  <2>. QED
    BY <1>4, <2>1 DEF Shutdown, ConnectionError, RInv, Registry!RegNext
<1>5. CASE CheckAlive \/ GetConfig \/ GetGpus \/ DecodeFailure \/ UNCHANGED vars
  <2>1. UNCHANGED <<present, disk, ctrl, privileged>>
    BY <1>5 DEF CheckAlive, GetConfig, GetGpus, DecodeFailure, Reply, vars
  <2>2. CASE running
    BY <1>0, <2>1, <2>2, KeepStep DEF RInv, Inv, TypeOK
  <2>3. CASE ~running
    <3>1. UNCHANGED running
      BY <1>5, <2>3 DEF CheckAlive, GetConfig, GetGpus, DecodeFailure, vars
    <3>. QED
      BY <2>1, <3>1 DEF RInv, Registry!regVars
  <2>. QED
    BY <2>1, <2>2, <2>3 DEF RInv
<1>6. ASSUME NEW i \in Handles,
             \/ GetInfo(i) \/ GetStats(i) \/ GetFanControl(i) \/ GetPowerCap(i)
             \/ StartFanControl(i) \/ StopFanControl(i)
             \/ CommitGPUPowerStates(i) \/ ResetGPUPowerStates(i)
             \/ \E c \in Curves \cup {EmptyCurve} : SetFanCurve(i, c)
             \/ \E cap \in CapInputs : SetPowerCap(i, cap)
             \/ \E p \in Profiles : SetPowerProfile(i, p)
             \/ \E clk \in ClockInputs : SetGPUMaxPowerState(i, clk) \/ SetVRAMMaxClock(i, clk)
      PROVE  /\ privileged' = TRUE
             /\ IsInjective(Idents(disk'))
             /\ [Registry!RegNext]_Registry!regVars
  <2>1. running
    BY <1>6 DEF GetInfo, GetStats, GetFanControl, GetPowerCap, StartFanControl,
       StopFanControl, CommitGPUPowerStates, ResetGPUPowerStates, SetFanCurve,
       SetPowerCap, SetPowerProfile, SetGPUMaxPowerState, SetVRAMMaxClock
  <2>2. privileged' = privileged /\ SavesEntry(i)
    BY <1>6, HandlerStore
  <2>3. Idents(disk') = Idents(disk)
    BY <2>1, <2>2, SavedIdents
  <2>4. present' = present /\ Idents(ctrl') = Idents(ctrl)
    <3>1. present' = present /\ (ctrl' = ctrl \/ SameIdents)
      BY <1>6, CardIdents
    <3>. QED
      BY <3>1 DEF SameIdents, Idents
  <2>. QED
    BY <1>0, <2>1, <2>2, <2>3, <2>4, KeepStep DEF RInv, Inv, TypeOK
<1>. QED
  BY <1>1, <1>2, <1>3, <1>4, <1>5, <1>6 DEF Next

(* The daemon starts from an empty configuration: no handles at all. *)
LEMMA RefinementInit ==
    Init => RInv /\ Registry!RegInit
<1>. SUFFICES ASSUME Init PROVE RInv /\ Registry!RegInit
  OBVIOUS
<1>1. Idents(EmptyStore) = Registry!NoHandles
  BY DEF Init, Idents, EmptyStore, Registry!NoHandles
<1>2. IsInjective(Idents(EmptyStore))
  BY DEF IsInjective, Idents, EmptyStore
<1>. QED
  BY <1>1, <1>2, InitInv DEF Init, RInv, Registry!RegInit

(* Daemon::new, load_gpu_controllers, SetConfig and every handler keep the *)
(* handle promise: each card the persisted configuration names keeps its  *)
(* handle at every start, a fresh handle is never one already in the file, *)
(* and no request but SetConfig changes the persisted handles.  This holds *)
(* for every number of cards and handles, on the fault-free privileged     *)
(* path with card names of five characters and one entry per card in     *)
(* every client configuration.                                             *)
THEOREM DaemonImplementsRegistry ==
    ASSUME RefinementHyp
    PROVE  Spec => ImplementsRegistry
<1>1. Init => RInv /\ Registry!RegInit
  BY RefinementInit
<1>2. RInv /\ [Next]_vars => RInv'
  BY RefinementStep, NextInv DEF RInv
<1>3. RInv /\ [Next]_vars => [Registry!RegNext]_Registry!regVars
  BY RefinementStep
<1>. QED
  BY <1>1, <1>2, <1>3, PTL DEF Spec, ImplementsRegistry, Registry!RegSpec

=============================================================================
