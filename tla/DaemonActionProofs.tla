------------------------- MODULE DaemonActionProofs -------------------------
(***************************************************************************)
(* Proofs of the daemon's action properties, for every value of the        *)
(* constants: the Shutdown request restores every controlled card when the *)
(* machine has at most two cards (ShutdownRestores), and a restart gives   *)
(* every card still present the handle it had (HandleStable).              *)
(***************************************************************************)
EXTENDS DaemonRefinementProofs, FiniteSetTheorems

-----------------------------------------------------------------------------
(* The Shutdown sequence *)

(* No two controllers drive one card: the identifiers of the controller   *)
(* map are one to one.  Unlike OneControllerPerDevice this holds whatever  *)
(* the card names, and also for the map a dead process left behind.        *)
CtrlOneToOne == IsInjective(Idents(ctrl))

(* The invariant the Shutdown proof rests on. *)
SInv == Inv /\ CtrlOneToOne

(* The machines on which the Shutdown loop reaches every card: its second *)
(* removal of the socket panics, so at most two are reset, and no write   *)
(* may fail.                                                               *)
ShutdownHyp == ~Faults /\ IsFiniteSet(Devices) /\ Cardinality(Devices) =< 2

LEMMA SInvInit == Init => SInv
BY InitInv DEF Init, SInv, CtrlOneToOne, IsInjective, Idents, EmptyStore

(* Every step keeps the controllers one per card: a reconciliation builds  *)
(* a one-to-one map, every other step keeps the controllers' identifiers. *)
LEMMA SInvNext == SInv /\ [Next]_vars => SInv'
<1>. SUFFICES ASSUME SInv, [Next]_vars PROVE SInv'
  OBVIOUS
<1>0. /\ Inv' /\ present \subseteq Devices
  BY NextInv DEF SInv, Inv, TypeOK
<1>. SUFFICES CtrlOneToOne'
  BY <1>0 DEF SInv
<1>1. CASE Restart
  <2>1. PICK priv \in StartModes : \E loaded \in Readable(priv) :
           \E b \in Assignments(loaded) :
              \/ ctrl' = NewControllers(loaded, b)
              \/ UNCHANGED ctrl
    BY <1>1 DEF Restart
  <2>2. PICK loaded \in Readable(priv) : \E b \in Assignments(loaded) :
              \/ ctrl' = NewControllers(loaded, b)
              \/ UNCHANGED ctrl
    BY <2>1
  <2>3. PICK b \in Assignments(loaded) :
              \/ ctrl' = NewControllers(loaded, b)
              \/ UNCHANGED ctrl
    BY <2>2
  <2>4. IsStore(loaded)
    BY DefaultsType DEF SInv, Inv, TypeOK, Readable, StartModes
  <2>5. Idents(NewControllers(loaded, b)) = b /\ IsInjective(b)
    BY <1>0, <2>4, IdentsReconcile, AssignmentShape
  <2>. QED
    BY <2>3, <2>5 DEF SInv, CtrlOneToOne
<1>2. ASSUME NEW new \in ClientConfigs, SetConfig(new)
      PROVE  CtrlOneToOne'
  <2>1. PICK b \in Assignments(new) :
           \/ ctrl' = NewControllers(new, b)
           \/ UNCHANGED ctrl
    BY <1>2 DEF SetConfig
  <2>2. Idents(NewControllers(new, b)) = b /\ IsInjective(b)
    BY <1>0, DaemonAssumptions, IdentsReconcile, AssignmentShape
  <2>. QED
    BY <2>1, <2>2 DEF SInv, CtrlOneToOne
<1>3. ASSUME NEW i \in Handles,
             \/ GetInfo(i) \/ GetStats(i) \/ GetFanControl(i) \/ GetPowerCap(i)
             \/ StartFanControl(i) \/ StopFanControl(i)
             \/ CommitGPUPowerStates(i) \/ ResetGPUPowerStates(i)
             \/ \E c \in Curves \cup {EmptyCurve} : SetFanCurve(i, c)
             \/ \E cap \in CapInputs : SetPowerCap(i, cap)
             \/ \E p \in Profiles : SetPowerProfile(i, p)
             \/ \E clk \in ClockInputs : SetGPUMaxPowerState(i, clk) \/ SetVRAMMaxClock(i, clk)
      PROVE  CtrlOneToOne'
  <2>1. ctrl' = ctrl \/ SameIdents
    BY <1>3, CardIdents
  <2>2. Idents(ctrl') = Idents(ctrl)
    BY <2>1 DEF SameIdents, Idents
  <2>. QED
    BY <2>2 DEF SInv, CtrlOneToOne
<1>4. CASE Reboot \/ Shutdown \/ ConnectionError \/ CheckAlive \/ GetConfig \/ GetGpus
           \/ DecodeFailure \/ UNCHANGED vars
  <2>1. UNCHANGED ctrl
    BY <1>4 DEF Reboot, Shutdown, ConnectionError, CheckAlive, GetConfig, GetGpus,
       DecodeFailure, Reply, vars
  <2>. QED
    BY <2>1 DEF SInv, CtrlOneToOne
<1>. QED
  BY <1>1, <1>2, <1>3, <1>4 DEF Next

(* The Shutdown loop of a machine with at most two cards resets every      *)
(* controlled card, and stops the fan loop of each whose entry has fan    *)
(* control on: the entry it reads is the controller's own.                 *)
LEMMA ShutdownReachesAll ==
    ASSUME ShutdownHyp, SInv, Shutdown
    PROVE  \A h \in DOMAIN ctrl :
              LET x == hw'[ctrl[h].ident]
              IN  /\ x.gpu = DefaultClock /\ x.vram = DefaultClock
                  /\ x.profile = AutoProfile
                  /\ Cfg(h).fan => x.fan = "auto"
<1>1. PICK first \in SUBSET DOMAIN ctrl, failed \in SUBSET DOMAIN ctrl :
         /\ Cardinality(first) = IF Cardinality(DOMAIN ctrl) < 2
                                 THEN Cardinality(DOMAIN ctrl) ELSE 2
         /\ Faults \/ failed = {}
         /\ hw' = [d \in Devices |->
                     IF \E h \in first \ failed : ctrl[h].ident = d
                     THEN ShutdownHw(hw[d],
                            config[CHOOSE h \in first \ failed : ctrl[h].ident = d].cfg.fan)
                     ELSE hw[d]]
  BY DEF Shutdown
<1>2. failed = {}
  BY <1>1 DEF ShutdownHyp
<1>3. Idents(ctrl) \in Injection(DOMAIN ctrl, Devices)
  BY DEF SInv, CtrlOneToOne, Inv, TypeOK, IsStore, Entry, Idents, Injection, IsInjective
<1>4. IsFiniteSet(DOMAIN ctrl) /\ Cardinality(DOMAIN ctrl) =< 2
  <2>1. IsFiniteSet(Devices)
    BY DEF ShutdownHyp
  <2>2. IsFiniteSet(DOMAIN ctrl) /\ Cardinality(DOMAIN ctrl) =< Cardinality(Devices)
    BY <1>3, <2>1, FS_Injection
  <2>3. Cardinality(DOMAIN ctrl) \in Nat /\ Cardinality(Devices) \in Nat
    BY <2>1, <2>2, FS_CardinalityType
  <2>. QED
    BY <2>2, <2>3 DEF ShutdownHyp
<1>5. first = DOMAIN ctrl
  <2>1. Cardinality(DOMAIN ctrl) \in Nat
    BY <1>4, FS_CardinalityType
  <2>2. Cardinality(first) = Cardinality(DOMAIN ctrl)
    BY <1>1, <1>4, <2>1
  <2>. QED
    BY <1>4, <2>2, FS_Subset
<1>. SUFFICES ASSUME NEW h \in DOMAIN ctrl
              PROVE  LET x == hw'[ctrl[h].ident]
                     IN  /\ x.gpu = DefaultClock /\ x.vram = DefaultClock
                         /\ x.profile = AutoProfile
                         /\ Cfg(h).fan => x.fan = "auto"
  OBVIOUS
<1>. DEFINE d == ctrl[h].ident
<1>6. d \in Devices /\ hw[d] \in HwState
  BY ControllerType DEF SInv, Inv, TypeOK
<1>7. (CHOOSE k \in first \ failed : ctrl[k].ident = d) = h
  BY <1>2, <1>5 DEF SInv, CtrlOneToOne, IsInjective, Idents
<1>8. config[h].cfg.fan = Cfg(h).fan
  BY DEF Shutdown, SInv, Inv, StorePersistsLive, Cfg
<1>9. hw'[d] = ShutdownHw(hw[d], Cfg(h).fan)
  BY <1>1, <1>2, <1>5, <1>6, <1>7, <1>8
<1>. QED
  BY <1>6, <1>9 DEF ShutdownHw, HwState

(* The Shutdown request of a machine with at most two cards, where no     *)
(* write fails, leaves every controlled card with its clock state reset,  *)
(* the Auto profile and, where fan control was on, its fan handed back to *)
(* the firmware; this holds for every such machine.                        *)
THEOREM ShutdownRestoresCards ==
    ASSUME ShutdownHyp
    PROVE  Spec => ShutdownRestores
<1>1. Init => SInv
  BY SInvInit
<1>2. SInv /\ [Next]_vars => SInv'
  BY SInvNext
<1>3. SInv => [Shutdown =>
                \A h \in DOMAIN ctrl :
                   LET x == hw'[ctrl[h].ident]
                   IN  /\ x.gpu = DefaultClock /\ x.vram = DefaultClock
                       /\ x.profile = AutoProfile
                       /\ Cfg(h).fan => x.fan = "auto"]_vars
  BY ShutdownReachesAll
<1>. QED
  BY <1>1, <1>2, <1>3, PTL DEF Spec, ShutdownRestores

-----------------------------------------------------------------------------
(* Handles across restarts *)

(* The conditions under which Daemon::new keeps the handles: the start     *)
(* reads /etc/lact.json (privileged, no read error) and every save         *)
(* succeeds, and the clients send one entry per card.                      *)
HandleHyp ==
    /\ ~Faults /\ ~Unprivileged
    /\ \A c \in ClientConfigs : IsInjective(Idents(c))

(* Every controller's entry is in /etc/lact.json: while the daemon is down *)
(* too, the file holds the handle map it last served.                      *)
CtrlSaved == \A h \in DOMAIN ctrl : h \in DOMAIN disk /\ disk[h] = ctrl[h]

(* Every controller drives a card whose directory entry the loop lists. *)
CtrlListed == \A h \in DOMAIN ctrl : NameLength(CardIndex[ctrl[h].ident]) = 5

(* The invariant the HandleStable proof rests on. *)
HInv == RInv /\ CtrlSaved /\ CtrlListed

(* The 'entries loop over a store with one entry per card keeps the       *)
(* store's handles: each listed card it names is registered under its     *)
(* entry's handle.                                                          *)
LEMMA AssignmentKeeps ==
    ASSUME NEW cfg, IsStore(cfg), IsInjective(Idents(cfg)),
           present \subseteq Devices, NEW b \in Assignments(cfg)
    PROVE  /\ Registry!Agree(Idents(cfg), b)
           /\ \A h \in DOMAIN cfg : cfg[h].ident \in Listed => h \in DOMAIN b
<1>1. /\ DOMAIN b \subseteq Handles
      /\ b \in [DOMAIN b -> present]
      /\ IsInjective(b) /\ Range(b) = Listed
      /\ \A h \in DOMAIN b \cap DOMAIN cfg : cfg[h].ident = b[h]
  BY AssignmentShape
<1>2. Registry!Agree(Idents(cfg), b)
  BY <1>1 DEF Registry!Agree, Idents
<1>3. ASSUME NEW h \in DOMAIN cfg, cfg[h].ident \in Listed
      PROVE  h \in DOMAIN b
  <2>1. PICK k \in DOMAIN b : b[k] = cfg[h].ident
    BY <1>1, <1>3 DEF Range
  <2>2. CASE k \in DOMAIN cfg
    <3>1. cfg[k].ident = cfg[h].ident
      BY <1>1, <2>1, <2>2
    <3>. QED
      BY <2>1, <2>2, <3>1 DEF IsInjective, Idents
  <2>3. CASE k \notin DOMAIN cfg
    <3>1. Matches(cfg, b[k]) = {}
      BY <2>1, <2>3 DEF Assignments
    <3>. QED
      BY <2>1, <3>1 DEF Matches
  <2>. QED
    BY <2>2, <2>3
<1>. QED
  BY <1>2, <1>3

(* A reconciliation saved whole: the new store has one entry per card, and *)
(* every controller it returns is saved in it and drives a listed card.    *)
LEMMA ReconcileSaved ==
    ASSUME NEW cfg, IsStore(cfg), IsInjective(Idents(cfg)),
           present \subseteq Devices, NEW b \in Assignments(cfg)
    PROVE  LET s == NewStore(cfg, b)
               n == NewControllers(cfg, b)
           IN  /\ IsInjective(Idents(s))
               /\ \A h \in DOMAIN n : /\ h \in DOMAIN s /\ s[h] = n[h]
                                      /\ NameLength(CardIndex[n[h].ident]) = 5
<1>1. /\ Registry!Agree(Idents(cfg), b)
      /\ \A h \in DOMAIN cfg : cfg[h].ident \in Listed => h \in DOMAIN b
  BY AssignmentKeeps
<1>2. IsInjective(b) /\ Range(b) = Listed
  BY AssignmentShape
<1>3. /\ Idents(NewStore(cfg, b)) = Registry!Extend(Idents(cfg), b)
      /\ Idents(NewControllers(cfg, b)) = b
  BY IdentsReconcile
<1>4. IsInjective(Idents(NewStore(cfg, b)))
  <2>1. \A h \in DOMAIN Idents(cfg) : Idents(cfg)[h] \in Range(b) => h \in DOMAIN b
    BY <1>1, <1>2 DEF Idents
  <2>. QED
    BY <1>1, <1>2, <1>3, <2>1, ExtendInjective
<1>5. /\ DOMAIN NewControllers(cfg, b) = DOMAIN b
      /\ DOMAIN b \subseteq DOMAIN NewStore(cfg, b)
      /\ \A h \in DOMAIN b :
            /\ NewControllers(cfg, b)[h] = NewStore(cfg, b)[h]
            /\ NewControllers(cfg, b)[h].ident = b[h]
  BY ReconcileStore
<1>6. \A h \in DOMAIN b : NameLength(CardIndex[b[h]]) = 5
  BY <1>2 DEF Range, Listed
<1>. QED
  BY <1>4, <1>5, <1>6

(* What a per-card handler does to the controller map and the file: it    *)
(* leaves both, or replaces the controller's entry (same identifier) and  *)
(* saves gpu_configs with that entry inserted.                             *)
PersistsEntry(i) ==
    \/ UNCHANGED <<ctrl, disk>>
    \/ \E c : /\ i \in DOMAIN ctrl /\ c.ident = ctrl[i].ident
              /\ disk' = Insert(config, i, c) /\ ctrl' = [ctrl EXCEPT ![i] = c]

LEMMA AppliedPersists ==
    ASSUME NEW i, NEW s, NEW x, Applied(i, s, x)
    PROVE  PersistsEntry(i)
BY DEF Applied, PersistsEntry

(* Every per-card handler saves the entry it changes, or changes nothing. *)
LEMMA HandlerPersists ==
    ASSUME NEW i \in Handles,
           \/ GetInfo(i) \/ GetStats(i) \/ GetFanControl(i) \/ GetPowerCap(i)
           \/ StartFanControl(i) \/ StopFanControl(i)
           \/ CommitGPUPowerStates(i) \/ ResetGPUPowerStates(i)
           \/ \E c \in Curves \cup {EmptyCurve} : SetFanCurve(i, c)
           \/ \E cap \in CapInputs : SetPowerCap(i, cap)
           \/ \E p \in Profiles : SetPowerProfile(i, p)
           \/ \E clk \in ClockInputs : SetGPUMaxPowerState(i, clk) \/ SetVRAMMaxClock(i, clk)
    PROVE  PersistsEntry(i)
<1>1. CASE GetInfo(i) \/ GetStats(i) \/ GetFanControl(i) \/ GetPowerCap(i)
  BY <1>1 DEF GetInfo, GetStats, GetFanControl, GetPowerCap, Unknown, Found, Fails,
     Rejected, Reply, PersistsEntry
<1>2. CASE StartFanControl(i)
  BY <1>2, AppliedPersists DEF StartFanControl, Unknown, Fails, Rejected, Reply, PersistsEntry
<1>3. CASE StopFanControl(i)
  BY <1>3, AppliedPersists DEF StopFanControl, Unknown, Fails, Rejected, Reply, PersistsEntry
<1>4. CASE CommitGPUPowerStates(i)
  BY <1>4, AppliedPersists DEF CommitGPUPowerStates, Unknown, Reply, PersistsEntry
<1>5. CASE ResetGPUPowerStates(i)
  BY <1>5, AppliedPersists DEF ResetGPUPowerStates, Unknown, Fails, Rejected, Reply,
     PersistsEntry
<1>6. CASE \E c \in Curves \cup {EmptyCurve} : SetFanCurve(i, c)
  BY <1>6, AppliedPersists DEF SetFanCurve, Unknown, Rejected, Reply, PersistsEntry
<1>7. CASE \E cap \in CapInputs : SetPowerCap(i, cap)
  BY <1>7, AppliedPersists DEF SetPowerCap, Unknown, Fails, Rejected, Reply, PersistsEntry
<1>8. CASE \E p \in Profiles : SetPowerProfile(i, p)
  BY <1>8, AppliedPersists DEF SetPowerProfile, Unknown, Fails, Rejected, Reply,
     PersistsEntry
<1>9. CASE \E clk \in ClockInputs : SetGPUMaxPowerState(i, clk)
  BY <1>9, AppliedPersists DEF SetGPUMaxPowerState, Unknown, Rejected, Reply, PersistsEntry
<1>10. CASE \E clk \in ClockInputs : SetVRAMMaxClock(i, clk)
  BY <1>10, AppliedPersists DEF SetVRAMMaxClock, Unknown, Rejected, Reply, PersistsEntry
<1>. QED
  BY <1>1, <1>2, <1>3, <1>4, <1>5, <1>6, <1>7, <1>8, <1>9, <1>10

(* A per-card handler keeps the invariant, also when its response fails   *)
(* and the process ends.                                                   *)
LEMMA HandlerHInv ==
    ASSUME HInv, Inv', NEW i \in Handles,
           \/ GetInfo(i) \/ GetStats(i) \/ GetFanControl(i) \/ GetPowerCap(i)
           \/ StartFanControl(i) \/ StopFanControl(i)
           \/ CommitGPUPowerStates(i) \/ ResetGPUPowerStates(i)
           \/ \E c \in Curves \cup {EmptyCurve} : SetFanCurve(i, c)
           \/ \E cap \in CapInputs : SetPowerCap(i, cap)
           \/ \E p \in Profiles : SetPowerProfile(i, p)
           \/ \E clk \in ClockInputs : SetGPUMaxPowerState(i, clk) \/ SetVRAMMaxClock(i, clk)
    PROVE  HInv'
<1>1. running
  BY DEF GetInfo, GetStats, GetFanControl, GetPowerCap, StartFanControl,
     StopFanControl, CommitGPUPowerStates, ResetGPUPowerStates, SetFanCurve,
     SetPowerCap, SetPowerProfile, SetGPUMaxPowerState, SetVRAMMaxClock
<1>2. privileged' = privileged /\ SavesEntry(i)
  BY HandlerStore
<1>3. Idents(disk') = Idents(disk)
  BY <1>1, <1>2, SavedIdents DEF HInv
<1>4. present' = present /\ (ctrl' = ctrl \/ SameIdents)
  BY CardIdents
<1>5. CtrlListed'
  BY <1>4 DEF HInv, CtrlListed, SameIdents
<1>6. CtrlSaved'
  <2>1. disk = config /\ \A h \in DOMAIN ctrl : h \in DOMAIN config /\ config[h] = ctrl[h]
    BY <1>1 DEF HInv, RInv, Inv, StorePersistsLive
  <2>2. CASE UNCHANGED <<ctrl, disk>>
    BY <2>2 DEF HInv, CtrlSaved
  <2>3. CASE \E c : /\ i \in DOMAIN ctrl /\ c.ident = ctrl[i].ident
                    /\ disk' = Insert(config, i, c) /\ ctrl' = [ctrl EXCEPT ![i] = c]
    BY <2>1, <2>3 DEF CtrlSaved, Insert
  <2>. QED
    BY <2>2, <2>3, HandlerPersists DEF PersistsEntry
<1>. QED
  BY <1>2, <1>3, <1>5, <1>6 DEF HInv, RInv

(* A privileged start that reads the file and saves: Daemon::new on the    *)
(* path of HandleHyp.                                                      *)
LEMMA RestartSaves ==
    ASSUME HandleHyp, Restart
    PROVE  \E b \in Assignments(disk) :
              /\ config' = NewStore(disk, b)
              /\ privileged' = TRUE
              /\ disk' = config'
              /\ ctrl' = NewControllers(disk, b) /\ running' = TRUE
              /\ present' = present
<1>1. StartModes = {TRUE} /\ Readable(TRUE) = {disk}
  BY DEF HandleHyp, StartModes, Readable
<1>. QED
  BY <1>1 DEF Restart, HandleHyp

(* Every step keeps the invariant. *)
LEMMA HInvNext ==
    ASSUME HandleHyp, HInv, [Next]_vars
    PROVE  HInv'
<1>0. /\ Inv' /\ present \subseteq Devices /\ IsStore(disk)
      /\ privileged = TRUE /\ IsInjective(Idents(disk))
  BY NextInv DEF HInv, RInv, Inv, TypeOK
<1>1. CASE Restart
  <2>1. PICK b \in Assignments(disk) :
           /\ config' = NewStore(disk, b)
           /\ privileged' = TRUE
           /\ disk' = config'
           /\ ctrl' = NewControllers(disk, b)
    BY <1>1, RestartSaves
  <2>2. LET s == NewStore(disk, b)
            n == NewControllers(disk, b)
        IN  /\ IsInjective(Idents(s))
            /\ \A h \in DOMAIN n : /\ h \in DOMAIN s /\ s[h] = n[h]
                                   /\ NameLength(CardIndex[n[h].ident]) = 5
    BY <1>0, ReconcileSaved
  <2>. QED
    BY <1>0, <2>1, <2>2 DEF HInv, RInv, CtrlSaved, CtrlListed
<1>2. ASSUME NEW new \in ClientConfigs, SetConfig(new)
      PROVE  HInv'
  <2>1. ~SaveMayFail
    BY <1>0 DEF HandleHyp, SaveMayFail
  <2>2. PICK b \in Assignments(new) :
           /\ config' = NewStore(new, b)
           /\ disk' = config'
           /\ ctrl' = NewControllers(new, b)
    BY <1>2, <2>1 DEF SetConfig
  <2>3. IsStore(new) /\ IsInjective(Idents(new))
    BY DaemonAssumptions DEF HandleHyp
  <2>4. LET s == NewStore(new, b)
            n == NewControllers(new, b)
        IN  /\ IsInjective(Idents(s))
            /\ \A h \in DOMAIN n : /\ h \in DOMAIN s /\ s[h] = n[h]
                                   /\ NameLength(CardIndex[n[h].ident]) = 5
    BY <1>0, <2>3, ReconcileSaved
  <2>5. privileged' = privileged
    BY <1>2 DEF SetConfig
  <2>. QED
    BY <1>0, <2>2, <2>4, <2>5 DEF HInv, RInv, CtrlSaved, CtrlListed
<1>3. ASSUME NEW i \in Handles,
             \/ GetInfo(i) \/ GetStats(i) \/ GetFanControl(i) \/ GetPowerCap(i)
             \/ StartFanControl(i) \/ StopFanControl(i)
             \/ CommitGPUPowerStates(i) \/ ResetGPUPowerStates(i)
             \/ \E c \in Curves \cup {EmptyCurve} : SetFanCurve(i, c)
             \/ \E cap \in CapInputs : SetPowerCap(i, cap)
             \/ \E p \in Profiles : SetPowerProfile(i, p)
             \/ \E clk \in ClockInputs : SetGPUMaxPowerState(i, clk) \/ SetVRAMMaxClock(i, clk)
      PROVE  HInv'
  BY <1>0, <1>3, HandlerHInv
<1>4. CASE Reboot \/ Shutdown \/ ConnectionError \/ CheckAlive \/ GetConfig \/ GetGpus
           \/ DecodeFailure \/ UNCHANGED vars
  <2>1. UNCHANGED <<ctrl, disk, privileged>>
    BY <1>4 DEF Reboot, Shutdown, ConnectionError, CheckAlive, GetConfig, GetGpus,
       DecodeFailure, Reply, vars
  <2>. QED
    BY <1>0, <2>1 DEF HInv, RInv, CtrlSaved, CtrlListed
<1>. QED
  BY <1>1, <1>2, <1>3, <1>4 DEF Next

(* Daemon::new on the path of HandleHyp gives each card still present the  *)
(* handle of the controller map the last process served.                   *)
LEMMA RestartKeepsHandles ==
    ASSUME HandleHyp, HInv, Restart
    PROVE  \A h \in DOMAIN ctrl :
              ctrl[h].ident \in present' => h \in DOMAIN ctrl' /\ ctrl'[h].ident = ctrl[h].ident
<1>1. PICK b \in Assignments(disk) :
         /\ ctrl' = NewControllers(disk, b)
         /\ present' = present
  BY RestartSaves
<1>2. /\ present \subseteq Devices /\ IsStore(disk) /\ IsInjective(Idents(disk))
  BY DEF HInv, RInv, Inv, TypeOK
<1>3. /\ Registry!Agree(Idents(disk), b)
      /\ \A h \in DOMAIN disk : disk[h].ident \in Listed => h \in DOMAIN b
  BY <1>2, AssignmentKeeps
<1>4. /\ DOMAIN NewControllers(disk, b) = DOMAIN b
      /\ \A h \in DOMAIN b : NewControllers(disk, b)[h].ident = b[h]
  BY <1>2, ReconcileStore
<1>. SUFFICES ASSUME NEW h \in DOMAIN ctrl, ctrl[h].ident \in present
              PROVE  h \in DOMAIN b /\ b[h] = ctrl[h].ident
  BY <1>1, <1>4
<1>5. h \in DOMAIN disk /\ disk[h].ident = ctrl[h].ident
  BY DEF HInv, CtrlSaved
<1>6. ctrl[h].ident \in Listed
  BY DEF HInv, CtrlListed, Listed
<1>7. h \in DOMAIN b
  BY <1>3, <1>5, <1>6
<1>. QED
  BY <1>3, <1>5, <1>7 DEF Registry!Agree, Idents

(* The only step from a dead process to a serving one is Daemon::new. *)
LEMMA OnlyRestartStarts ==
    ASSUME [Next]_vars, ~running, running'
    PROVE  Restart
<1>1. ASSUME NEW i \in Handles,
             \/ GetInfo(i) \/ GetStats(i) \/ GetFanControl(i) \/ GetPowerCap(i)
             \/ StartFanControl(i) \/ StopFanControl(i)
             \/ CommitGPUPowerStates(i) \/ ResetGPUPowerStates(i)
             \/ \E c \in Curves \cup {EmptyCurve} : SetFanCurve(i, c)
             \/ \E cap \in CapInputs : SetPowerCap(i, cap)
             \/ \E p \in Profiles : SetPowerProfile(i, p)
             \/ \E clk \in ClockInputs : SetGPUMaxPowerState(i, clk) \/ SetVRAMMaxClock(i, clk)
      PROVE  running
  BY <1>1 DEF GetInfo, GetStats, GetFanControl, GetPowerCap, StartFanControl,
     StopFanControl, CommitGPUPowerStates, ResetGPUPowerStates, SetFanCurve,
     SetPowerCap, SetPowerProfile, SetGPUMaxPowerState, SetVRAMMaxClock
<1>2. ASSUME NEW new \in ClientConfigs, SetConfig(new)
      PROVE  running
  BY <1>2 DEF SetConfig
<1>3. ~(Reboot \/ Shutdown \/ ConnectionError \/ CheckAlive \/ GetConfig \/ GetGpus
        \/ DecodeFailure \/ UNCHANGED vars)
  BY DEF Reboot, Shutdown, ConnectionError, CheckAlive, GetConfig, GetGpus,
     DecodeFailure, vars
<1>. QED
  BY <1>1, <1>2, <1>3 DEF Next

(* Daemon::new gives every card that is still present the handle it had   *)
(* before the crash, exit or reboot, for any number of cards, whatever    *)
(* their names, as long as the start is privileged and reads and saves    *)
(* /etc/lact.json without error and the clients send one entry per card.   *)
THEOREM HandlesStable ==
    ASSUME HandleHyp
    PROVE  Spec => HandleStable
<1>1. Init => HInv
  BY RefinementInit DEF Init, HInv, CtrlSaved, CtrlListed, EmptyStore
<1>2. HInv /\ [Next]_vars => HInv'
  BY HInvNext
<1>3. HInv /\ [Next]_vars =>
        [~running /\ running' =>
           \A h \in DOMAIN ctrl :
              ctrl[h].ident \in present' => h \in DOMAIN ctrl' /\ ctrl'[h].ident = ctrl[h].ident]_vars
  BY OnlyRestartStarts, RestartKeepsHandles
<1>. QED
  BY <1>1, <1>2, <1>3, PTL DEF Spec, HandleStable

=============================================================================
