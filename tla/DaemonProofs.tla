---------------------------- MODULE DaemonProofs ----------------------------
(***************************************************************************)
(* Proofs about the daemon model, for every value of the constants that    *)
(* satisfies DaemonAssumptions: the type invariant and the write-through  *)
(* persistence of the handle map (StorePersistsLive).                      *)
(***************************************************************************)
EXTENDS Daemon, TLAPS

-----------------------------------------------------------------------------
(* Lemmas about the operators the model is built from. *)

(* GpuConfig::new() and the power-on attributes are well typed. *)
LEMMA DefaultsType ==
    DefaultSettings \in Settings /\ HwDefault \in HwState /\ IsStore(EmptyStore)
BY DaemonAssumptions DEF DefaultSettings, Settings, HwDefault, HwState,
   IsStore, EmptyStore

(* HashMap::insert of an entry under a handle keeps a handle map. *)
LEMMA InsertStore ==
    ASSUME NEW m, IsStore(m), NEW k \in Handles, NEW v \in Entry
    PROVE  /\ IsStore(Insert(m, k, v))
           /\ DOMAIN Insert(m, k, v) = DOMAIN m \cup {k}
           /\ Insert(m, k, v)[k] = v
           /\ \A x \in DOMAIN m \ {k} : Insert(m, k, v)[x] = m[x]
BY DEF IsStore, Insert

(* What a reconciliation outcome b is: a function from handles onto the    *)
(* cards the loop lists.                                                   *)
LEMMA AssignmentShape ==
    ASSUME NEW cfg, NEW b \in Assignments(cfg)
    PROVE  /\ DOMAIN b \subseteq Handles
           /\ b \in [DOMAIN b -> present]
           /\ IsInjective(b) /\ Range(b) = Listed
           /\ \A h \in DOMAIN b \cap DOMAIN cfg : cfg[h].ident = b[h]
<1>1. PICK H \in SUBSET Handles : b \in [H -> present]
  BY DEF Assignments
<1>2. DOMAIN b = H
  BY <1>1
<1>. QED
  BY <1>1, <1>2 DEF Assignments

(* load_gpu_controllers builds a handle map, and the controller map it     *)
(* returns is the part of it under the handles of the present cards, each  *)
(* carrying the identifier of the card it was built for.                   *)
LEMMA ReconcileStore ==
    ASSUME NEW cfg, IsStore(cfg), present \subseteq Devices,
           NEW b \in Assignments(cfg)
    PROVE  /\ IsStore(NewStore(cfg, b))
           /\ IsStore(NewControllers(cfg, b))
           /\ DOMAIN NewControllers(cfg, b) = DOMAIN b
           /\ DOMAIN b \subseteq DOMAIN NewStore(cfg, b)
           /\ \A h \in DOMAIN b :
                 /\ NewControllers(cfg, b)[h] = NewStore(cfg, b)[h]
                 /\ NewControllers(cfg, b)[h].ident = b[h]
<1>1. /\ DOMAIN b \subseteq Handles
      /\ b \in [DOMAIN b -> present]
      /\ \A h \in DOMAIN b \cap DOMAIN cfg : cfg[h].ident = b[h]
  BY AssignmentShape
<1>2. IsStore(NewStore(cfg, b))
  BY <1>1, DefaultsType DEF IsStore, NewStore, Entry
<1>. QED
  BY <1>1, <1>2 DEF IsStore, NewStore, NewControllers, Restrict

(* load_config writes settings to a card's attributes. *)
LEMMA LoadedType ==
    ASSUME NEW x \in HwState, NEW s \in Settings
    PROVE  Loaded(x, s) \in HwState
BY DEF Loaded, HwState, Settings

(* The attributes after reconciliation are well typed. *)
LEMMA LoadHwType ==
    ASSUME NEW cfg, IsStore(cfg), hw \in [Devices -> HwState],
           NEW b \in Assignments(cfg)
    PROVE  LoadHw(cfg, b) \in [Devices -> HwState]
<1>. DEFINE known == DOMAIN b \cap DOMAIN cfg
<1>1. SUFFICES ASSUME NEW d \in Devices, \E h \in known : b[h] = d
               PROVE  Loaded(hw[d], cfg[CHOOSE h \in known : b[h] = d].cfg) \in HwState
  BY DEF LoadHw
<1>2. (CHOOSE h \in known : b[h] = d) \in DOMAIN cfg
  BY <1>1
<1>3. cfg[CHOOSE h \in known : b[h] = d].cfg \in Settings
  BY <1>2 DEF IsStore, Entry
<1>. QED
  BY <1>3, LoadedType

-----------------------------------------------------------------------------
(* The inductive invariant: the type invariant and write-through           *)
(* persistence together.  Shutdown reads the fan flag of gpu_configs for   *)
(* each controller, and only StorePersistsLive says that entry exists.     *)
Inv == TypeOK /\ StorePersistsLive

LEMMA InitInv == Init => Inv
BY DefaultsType DEF Init, Inv, TypeOK, StorePersistsLive

(* The per-card types a handler reads. *)
LEMMA ControllerType ==
    ASSUME TypeOK, NEW i \in DOMAIN ctrl
    PROVE  /\ i \in Handles
           /\ ctrl[i] \in Entry
           /\ ctrl[i].ident \in Devices
           /\ Cfg(i) \in Settings
           /\ Attrs(i) \in HwState
BY DEF TypeOK, IsStore, Entry, Cfg, Attrs

(* A handler that only responds keeps the invariant. *)
LEMMA ReplyInv ==
    ASSUME Inv, running, Reply
    PROVE  Inv'
BY DEF Inv, TypeOK, StorePersistsLive, Reply, Respond

(* The Ok arm of a mutating handler keeps the invariant when it writes     *)
(* well-typed settings and attributes.                                    *)
LEMMA AppliedInv ==
    ASSUME Inv, running, NEW i, NEW s \in Settings, NEW x \in HwState,
           Applied(i, s, x)
    PROVE  Inv'
<1>. DEFINE c == [ident |-> ctrl[i].ident, cfg |-> s]
<1>1. i \in DOMAIN ctrl
  BY DEF Applied
<1>2. c \in Entry /\ i \in Handles
  BY <1>1, ControllerType DEF Inv, Entry
<1>3. /\ hw' = [hw EXCEPT ![ctrl[i].ident] = x]
      /\ config' = Insert(config, i, c)
      /\ UNCHANGED <<present, orphans, socket, privileged>>
  BY DEF Applied
<1>4. /\ IsStore(Insert(config, i, c))
      /\ DOMAIN Insert(config, i, c) = DOMAIN config \cup {i}
      /\ Insert(config, i, c)[i] = c
      /\ \A h \in DOMAIN config \ {i} : Insert(config, i, c)[h] = config[h]
  <2>1. IsStore(config)
    BY DEF Inv, TypeOK
  <2>. QED
    BY <1>2, <2>1, InsertStore
<1>8. /\ IsStore(config')
      /\ DOMAIN config' = DOMAIN config \cup {i}
      /\ config'[i] = c
      /\ \A h \in DOMAIN config \ {i} : config'[h] = config[h]
  BY <1>3, <1>4
<1>5. hw' \in [Devices -> HwState]
  BY <1>1, <1>3, ControllerType DEF Inv, TypeOK
<1>6. CASE disk' = config' /\ ctrl' = [ctrl EXCEPT ![i] = c] /\ Respond
  <2>1. TypeOK'
    BY <1>2, <1>3, <1>8, <1>5, <1>6 DEF Inv, TypeOK, IsStore, Respond
  <2>2. StorePersistsLive'
    BY <1>1, <1>8, <1>6 DEF Inv, StorePersistsLive
  <2>. QED
    BY <2>1, <2>2 DEF Inv
<1>7. CASE SaveMayFail /\ running' = FALSE /\ UNCHANGED <<disk, ctrl>>
  BY <1>3, <1>8, <1>5, <1>7 DEF Inv, TypeOK, StorePersistsLive
<1>. QED
  BY <1>6, <1>7 DEF Applied

(* A refused call, or one on an unknown handle, keeps the invariant. *)
LEMMA RefusedInv ==
    ASSUME Inv, running, NEW i, NEW cond, Unknown(i) \/ Rejected(i, cond)
    PROVE  Inv'
BY ReplyInv DEF Unknown, Rejected

(* StartFanControl keeps the invariant. *)
LEMMA StartFanControlInv ==
    ASSUME Inv, NEW i \in Handles, StartFanControl(i)
    PROVE  Inv'
<1>1. CASE Applied(i, [Cfg(i) EXCEPT !.fan = TRUE], [Attrs(i) EXCEPT !.fan = "manual"])
  <2>1. i \in DOMAIN ctrl
    BY <1>1 DEF Applied
  <2>2. /\ [Cfg(i) EXCEPT !.fan = TRUE] \in Settings
        /\ [Attrs(i) EXCEPT !.fan = "manual"] \in HwState
    BY <1>1, <2>1, DaemonAssumptions, ControllerType DEF Inv, Settings, HwState
  <2>. QED
    BY <1>1, <2>2, AppliedInv DEF StartFanControl
<1>2. CASE Unknown(i) \/ Fails(i)
  BY <1>2, RefusedInv DEF StartFanControl, Fails
<1>. QED
  BY <1>1, <1>2 DEF StartFanControl

(* StopFanControl keeps the invariant. *)
LEMMA StopFanControlInv ==
    ASSUME Inv, NEW i \in Handles, StopFanControl(i)
    PROVE  Inv'
<1>1. CASE Applied(i, [Cfg(i) EXCEPT !.fan = FALSE], [Attrs(i) EXCEPT !.fan = "auto"])
  <2>1. i \in DOMAIN ctrl
    BY <1>1 DEF Applied
  <2>2. /\ [Cfg(i) EXCEPT !.fan = FALSE] \in Settings
        /\ [Attrs(i) EXCEPT !.fan = "auto"] \in HwState
    BY <1>1, <2>1, DaemonAssumptions, ControllerType DEF Inv, Settings, HwState
  <2>. QED
    BY <1>1, <2>2, AppliedInv DEF StopFanControl
<1>2. CASE Unknown(i) \/ Fails(i)
  BY <1>2, RefusedInv DEF StopFanControl, Fails
<1>. QED
  BY <1>1, <1>2 DEF StopFanControl

(* SetFanCurve keeps the invariant. *)
LEMMA SetFanCurveInv ==
    ASSUME Inv, NEW i \in Handles, NEW curve, SetFanCurve(i, curve)
    PROVE  Inv'
<1>1. CASE curve \in Curves /\ Applied(i, [Cfg(i) EXCEPT !.curve = curve], Attrs(i))
  <2>1. i \in DOMAIN ctrl
    BY <1>1 DEF Applied
  <2>2. /\ [Cfg(i) EXCEPT !.curve = curve] \in Settings
        /\ Attrs(i) \in HwState
    BY <1>1, <2>1, DaemonAssumptions, ControllerType DEF Inv, Settings, HwState
  <2>. QED
    BY <1>1, <2>2, AppliedInv DEF SetFanCurve
<1>2. CASE Unknown(i) \/ Rejected(i, curve \notin Curves)
  BY <1>2, RefusedInv DEF SetFanCurve
<1>. QED
  BY <1>1, <1>2 DEF SetFanCurve

(* SetPowerCap keeps the invariant. *)
LEMMA SetPowerCapInv ==
    ASSUME Inv, NEW i \in Handles, NEW cap \in CapInputs, SetPowerCap(i, cap)
    PROVE  Inv'
<1>1. CASE cap \in CapMin..CapMax /\ Applied(i, [Cfg(i) EXCEPT !.cap = cap], [Attrs(i) EXCEPT !.cap = cap])
  <2>1. i \in DOMAIN ctrl
    BY <1>1 DEF Applied
  <2>2. /\ [Cfg(i) EXCEPT !.cap = cap] \in Settings
        /\ [Attrs(i) EXCEPT !.cap = cap] \in HwState
    BY <1>1, <2>1, DaemonAssumptions, ControllerType DEF Inv, Settings, HwState
  <2>. QED
    BY <1>1, <2>2, AppliedInv DEF SetPowerCap
<1>2. CASE Unknown(i) \/ Rejected(i, cap \notin CapMin..CapMax)
  BY <1>2, RefusedInv DEF SetPowerCap
<1>3. CASE Fails(i)
  BY <1>3, RefusedInv DEF SetPowerCap, Fails
<1>. QED
  BY <1>1, <1>2, <1>3 DEF SetPowerCap

(* SetPowerProfile keeps the invariant. *)
LEMMA SetPowerProfileInv ==
    ASSUME Inv, NEW i \in Handles, NEW p \in Profiles, SetPowerProfile(i, p)
    PROVE  Inv'
<1>1. CASE p \in SupportedProfiles /\ Applied(i, [Cfg(i) EXCEPT !.profile = p], [Attrs(i) EXCEPT !.profile = p])
  <2>1. i \in DOMAIN ctrl
    BY <1>1 DEF Applied
  <2>2. /\ [Cfg(i) EXCEPT !.profile = p] \in Settings
        /\ [Attrs(i) EXCEPT !.profile = p] \in HwState
    BY <1>1, <2>1, DaemonAssumptions, ControllerType DEF Inv, Settings, HwState
  <2>. QED
    BY <1>1, <2>2, AppliedInv DEF SetPowerProfile
<1>2. CASE Unknown(i) \/ Rejected(i, p \notin SupportedProfiles)
  BY <1>2, RefusedInv DEF SetPowerProfile
<1>3. CASE Fails(i)
  BY <1>3, RefusedInv DEF SetPowerProfile, Fails
<1>. QED
  BY <1>1, <1>2, <1>3 DEF SetPowerProfile

(* SetGPUMaxPowerState keeps the invariant. *)
LEMMA SetGPUMaxPowerStateInv ==
    ASSUME Inv, NEW i \in Handles, NEW clk \in ClockInputs, SetGPUMaxPowerState(i, clk)
    PROVE  Inv'
<1>1. CASE clk \in Clocks /\ Applied(i, [Cfg(i) EXCEPT !.gpu = clk], Attrs(i))
  <2>1. i \in DOMAIN ctrl
    BY <1>1 DEF Applied
  <2>2. /\ [Cfg(i) EXCEPT !.gpu = clk] \in Settings
        /\ Attrs(i) \in HwState
    BY <1>1, <2>1, DaemonAssumptions, ControllerType DEF Inv, Settings, HwState
  <2>. QED
    BY <1>1, <2>2, AppliedInv DEF SetGPUMaxPowerState
<1>2. CASE Unknown(i) \/ Rejected(i, clk \notin Clocks)
  BY <1>2, RefusedInv DEF SetGPUMaxPowerState
<1>. QED
  BY <1>1, <1>2 DEF SetGPUMaxPowerState

(* SetVRAMMaxClock keeps the invariant. *)
LEMMA SetVRAMMaxClockInv ==
    ASSUME Inv, NEW i \in Handles, NEW clk \in ClockInputs, SetVRAMMaxClock(i, clk)
    PROVE  Inv'
<1>1. CASE clk \in Clocks /\ Applied(i, [Cfg(i) EXCEPT !.vram = clk], Attrs(i))
  <2>1. i \in DOMAIN ctrl
    BY <1>1 DEF Applied
  <2>2. /\ [Cfg(i) EXCEPT !.vram = clk] \in Settings
        /\ Attrs(i) \in HwState
    BY <1>1, <2>1, DaemonAssumptions, ControllerType DEF Inv, Settings, HwState
  <2>. QED
    BY <1>1, <2>2, AppliedInv DEF SetVRAMMaxClock
<1>2. CASE Unknown(i) \/ Rejected(i, clk \notin Clocks)
  BY <1>2, RefusedInv DEF SetVRAMMaxClock
<1>. QED
  BY <1>1, <1>2 DEF SetVRAMMaxClock

(* ResetGPUPowerStates keeps the invariant. *)
LEMMA ResetGPUPowerStatesInv ==
    ASSUME Inv, NEW i \in Handles, ResetGPUPowerStates(i)
    PROVE  Inv'
<1>1. CASE Applied(i, [Cfg(i) EXCEPT !.gpu = NoEdit, !.vram = NoEdit], [Attrs(i) EXCEPT !.gpu = DefaultClock, !.vram = DefaultClock])
  <2>1. i \in DOMAIN ctrl
    BY <1>1 DEF Applied
  <2>2. /\ [Cfg(i) EXCEPT !.gpu = NoEdit, !.vram = NoEdit] \in Settings
        /\ [Attrs(i) EXCEPT !.gpu = DefaultClock, !.vram = DefaultClock] \in HwState
    BY <1>1, <2>1, DaemonAssumptions, ControllerType DEF Inv, Settings, HwState
  <2>. QED
    BY <1>1, <2>2, AppliedInv DEF ResetGPUPowerStates
<1>2. CASE Unknown(i) \/ Fails(i)
  BY <1>2, RefusedInv DEF ResetGPUPowerStates, Fails
<1>. QED
  BY <1>1, <1>2 DEF ResetGPUPowerStates

(* The clock attribute after a staged edit is written stays a clock state. *)
LEMMA WrittenType ==
    ASSUME NEW old \in Clocks \cup {DefaultClock}, NEW e \in Clocks \cup {NoEdit}
    PROVE  Written(old, e) \in Clocks \cup {DefaultClock}
BY DEF Written

(* commit_gpu_power_states keeps the invariant, also when it fails part-way. *)
LEMMA CommitGPUPowerStatesInv ==
    ASSUME Inv, NEW i \in Handles, CommitGPUPowerStates(i)
    PROVE  Inv'
<1>. DEFINE s == [Cfg(i) EXCEPT !.gpu = NoEdit, !.vram = NoEdit]
            x == [Attrs(i) EXCEPT !.gpu = Written(@, Cfg(i).gpu),
                                  !.vram = Written(@, Cfg(i).vram)]
<1>1. CASE Applied(i, s, x)
  <2>1. i \in DOMAIN ctrl
    BY <1>1 DEF Applied
  <2>2. /\ Written(Attrs(i).gpu, Cfg(i).gpu) \in Clocks \cup {DefaultClock}
        /\ Written(Attrs(i).vram, Cfg(i).vram) \in Clocks \cup {DefaultClock}
    BY <2>1, ControllerType, WrittenType DEF Inv, Settings, HwState
  <2>3. s \in Settings /\ x \in HwState
    BY <2>1, <2>2, ControllerType DEF Inv, Settings, HwState
  <2>. QED
    BY <1>1, <2>3, AppliedInv DEF CommitGPUPowerStates
<1>2. CASE /\ i \in DOMAIN ctrl /\ Faults
           /\ hw' = [hw EXCEPT ![ctrl[i].ident].gpu = Written(@, Cfg(i).gpu)]
           /\ Respond
           /\ UNCHANGED <<present, ctrl, config, disk, orphans, socket, privileged>>
  <2>1. Written(Attrs(i).gpu, Cfg(i).gpu) \in Clocks \cup {DefaultClock}
    BY <1>2, ControllerType, WrittenType DEF Inv, Settings, HwState
  <2>2. hw' \in [Devices -> HwState]
    BY <1>2, <2>1, ControllerType DEF Inv, TypeOK, HwState, Attrs
  <2>. QED
    BY <1>2, <2>2 DEF Inv, TypeOK, StorePersistsLive, Respond, CommitGPUPowerStates
<1>3. CASE Unknown(i)
  BY <1>3, RefusedInv DEF CommitGPUPowerStates
<1>. QED
  BY <1>1, <1>2, <1>3 DEF CommitGPUPowerStates

(* The requests that only answer keep the invariant. *)
LEMMA QueryInv ==
    ASSUME Inv, CheckAlive \/ GetConfig \/ GetGpus \/ DecodeFailure
    PROVE  Inv'
<1>1. CASE CheckAlive \/ GetConfig \/ GetGpus
  BY <1>1, ReplyInv DEF CheckAlive, GetConfig, GetGpus
<1>2. CASE DecodeFailure
  BY <1>2 DEF DecodeFailure, vars, Inv, TypeOK, StorePersistsLive
<1>. QED
  BY <1>1, <1>2

(* The per-card queries keep the invariant. *)
LEMMA CardQueryInv ==
    ASSUME Inv, NEW i \in Handles,
           GetInfo(i) \/ GetStats(i) \/ GetFanControl(i) \/ GetPowerCap(i)
    PROVE  Inv'
BY ReplyInv DEF GetInfo, GetStats, GetFanControl, GetPowerCap,
   Unknown, Found, Fails, Rejected

(* Daemon::new keeps the invariant: the controller map is the part of the  *)
(* reconciled store, which a privileged start saves or panics on.          *)
LEMMA RestartInv ==
    ASSUME Inv, Restart
    PROVE  Inv'
<1>. DEFINE Body(priv, loaded, b) ==
          /\ config' = NewStore(loaded, b)
          /\ hw' = LoadHw(loaded, b)
          /\ privileged' = priv
          /\ \/ /\ ~priv
                /\ ctrl' = NewControllers(loaded, b) /\ running' = TRUE
                /\ UNCHANGED disk
             \/ /\ priv
                /\ disk' = config'
                /\ ctrl' = NewControllers(loaded, b) /\ running' = TRUE
             \/ /\ priv /\ Faults
                /\ running' = FALSE
                /\ UNCHANGED <<disk, ctrl>>
<1>1. PICK priv \in StartModes :
         \E loaded \in Readable(priv) : \E b \in Assignments(loaded) : Body(priv, loaded, b)
  BY DEF Restart
<1>2. PICK loaded \in Readable(priv) : \E b \in Assignments(loaded) : Body(priv, loaded, b)
  BY <1>1
<1>3. PICK b \in Assignments(loaded) : Body(priv, loaded, b)
  BY <1>2
<1>4. IsStore(loaded) /\ priv \in BOOLEAN
  BY DefaultsType DEF Inv, TypeOK, Readable, StartModes
<1>5. /\ IsStore(NewStore(loaded, b))
      /\ IsStore(NewControllers(loaded, b))
      /\ DOMAIN NewControllers(loaded, b) \subseteq DOMAIN NewStore(loaded, b)
      /\ \A h \in DOMAIN NewControllers(loaded, b) :
            NewControllers(loaded, b)[h] = NewStore(loaded, b)[h]
      /\ LoadHw(loaded, b) \in [Devices -> HwState]
  BY <1>4, ReconcileStore, LoadHwType DEF Inv, TypeOK
<1>6. /\ orphans' = {} /\ socket' = TRUE /\ UNCHANGED present
  BY DEF Restart
<1>. QED
  BY <1>3, <1>4, <1>5, <1>6 DEF Inv, TypeOK, StorePersistsLive

(* SetConfig keeps the invariant in the same way. *)
LEMMA SetConfigInv ==
    ASSUME Inv, NEW new \in ClientConfigs, SetConfig(new)
    PROVE  Inv'
<1>1. PICK b \in Assignments(new) :
         /\ config' = NewStore(new, b)
         /\ hw' = LoadHw(new, b)
         /\ orphans' = orphans \cup {ctrl[h].ident : h \in {h \in DOMAIN ctrl : Cfg(h).fan}}
         /\ \/ /\ disk' = config'
               /\ ctrl' = NewControllers(new, b)
               /\ Respond
            \/ /\ SaveMayFail
               /\ running' = FALSE
               /\ UNCHANGED <<disk, ctrl>>
  BY DEF SetConfig
<1>2. IsStore(new)
  BY DaemonAssumptions
<1>3. /\ IsStore(NewStore(new, b))
      /\ IsStore(NewControllers(new, b))
      /\ DOMAIN NewControllers(new, b) \subseteq DOMAIN NewStore(new, b)
      /\ \A h \in DOMAIN NewControllers(new, b) :
            NewControllers(new, b)[h] = NewStore(new, b)[h]
      /\ LoadHw(new, b) \in [Devices -> HwState]
  BY <1>2, ReconcileStore, LoadHwType DEF Inv, TypeOK
<1>4. orphans' \subseteq Devices
  BY <1>1, ControllerType DEF Inv, TypeOK
<1>5. UNCHANGED <<present, socket, privileged>>
  BY DEF SetConfig
<1>. QED
  BY <1>1, <1>3, <1>4, <1>5 DEF Inv, TypeOK, StorePersistsLive, Respond

(* The Shutdown loop resets a card to well-typed attributes. *)
LEMMA ShutdownHwType ==
    ASSUME NEW x \in HwState, NEW stopFan \in BOOLEAN
    PROVE  ShutdownHw(x, stopFan) \in HwState
BY DaemonAssumptions DEF ShutdownHw, HwState

(* Shutdown keeps the invariant: the fan flag it reads for each controller *)
(* comes from the controller's own gpu_configs entry.                     *)
LEMMA ShutdownInv ==
    ASSUME Inv, Shutdown
    PROVE  Inv'
<1>1. PICK first \in SUBSET DOMAIN ctrl, failed \in SUBSET DOMAIN ctrl :
         hw' = [d \in Devices |->
                  IF \E h \in first \ failed : ctrl[h].ident = d
                  THEN ShutdownHw(hw[d],
                         config[CHOOSE h \in first \ failed : ctrl[h].ident = d].cfg.fan)
                  ELSE hw[d]]
  BY DEF Shutdown
<1>2. hw' \in [Devices -> HwState]
  <2>1. SUFFICES ASSUME NEW d \in Devices, \E h \in first \ failed : ctrl[h].ident = d
                 PROVE  ShutdownHw(hw[d],
                          config[CHOOSE h \in first \ failed : ctrl[h].ident = d].cfg.fan)
                        \in HwState
    BY <1>1 DEF Inv, TypeOK
  <2>. DEFINE h0 == CHOOSE h \in first \ failed : ctrl[h].ident = d
  <2>2. h0 \in DOMAIN ctrl
    BY <2>1
  <2>3. config[h0] = ctrl[h0]
    BY <2>2 DEF Inv, StorePersistsLive, Shutdown
  <2>4. config[h0].cfg.fan \in BOOLEAN
    BY <2>2, <2>3, ControllerType DEF Inv, Settings, Cfg
  <2>. QED
    BY <2>4, ShutdownHwType DEF Inv, TypeOK
<1>3. /\ running' = FALSE /\ socket' \in BOOLEAN
      /\ UNCHANGED <<present, ctrl, config, disk, orphans, privileged>>
  BY DEF Shutdown
<1>. QED
  BY <1>2, <1>3 DEF Inv, TypeOK, StorePersistsLive

(* Crashes and reboots keep the invariant. *)
LEMMA DownInv ==
    ASSUME Inv, Reboot \/ ConnectionError
    PROVE  Inv'
<1>1. CASE Reboot
  BY <1>1, DefaultsType DEF Reboot, Inv, TypeOK, StorePersistsLive
<1>2. CASE ConnectionError
  BY <1>2 DEF ConnectionError, Inv, TypeOK, StorePersistsLive
<1>. QED
  BY <1>1, <1>2

(* Every step of the daemon keeps the invariant. *)
LEMMA NextInv ==
    Inv /\ [Next]_vars => Inv'
<1>. SUFFICES ASSUME Inv, [Next]_vars PROVE Inv'
  OBVIOUS
<1>1. CASE Restart
  BY <1>1, RestartInv
<1>2. CASE Reboot \/ ConnectionError
  BY <1>2, DownInv
<1>3. CASE Shutdown
  BY <1>3, ShutdownInv
<1>4. CASE \E new \in ClientConfigs : SetConfig(new)
  BY <1>4, SetConfigInv
<1>5. CASE CheckAlive \/ GetConfig \/ GetGpus \/ DecodeFailure
  BY <1>5, QueryInv
<1>6. ASSUME NEW i \in Handles,
             \/ GetInfo(i) \/ GetStats(i) \/ GetFanControl(i) \/ GetPowerCap(i)
             \/ StartFanControl(i) \/ StopFanControl(i)
             \/ CommitGPUPowerStates(i) \/ ResetGPUPowerStates(i)
             \/ \E c \in Curves \cup {EmptyCurve} : SetFanCurve(i, c)
             \/ \E cap \in CapInputs : SetPowerCap(i, cap)
             \/ \E p \in Profiles : SetPowerProfile(i, p)
             \/ \E clk \in ClockInputs : SetGPUMaxPowerState(i, clk) \/ SetVRAMMaxClock(i, clk)
      PROVE  Inv'
  BY <1>6, CardQueryInv, StartFanControlInv, StopFanControlInv, CommitGPUPowerStatesInv,
     ResetGPUPowerStatesInv, SetFanCurveInv, SetPowerCapInv, SetPowerProfileInv,
     SetGPUMaxPowerStateInv, SetVRAMMaxClockInv
<1>7. CASE UNCHANGED vars
  BY <1>7 DEF vars, Inv, TypeOK, StorePersistsLive
<1>. QED
  BY <1>1, <1>2, <1>3, <1>4, <1>5, <1>6, <1>7 DEF Next

(* The inductive invariant holds in every state of the daemon. *)
LEMMA InvInvariant == Spec => []Inv
BY InitInv, NextInv, PTL DEF Spec

(* The type invariant holds in every state of the daemon. *)
THEOREM TypeCorrect == Spec => []TypeOK
<1>1. Inv => TypeOK
  BY DEF Inv
<1>. QED
  BY <1>1, InvInvariant, PTL

(* Write-through persistence holds in every state: while the daemon serves *)
(* requests, every controller's gpu_configs entry is its own (identifier,  *)
(* settings) and /etc/lact.json holds the in-memory configuration.         *)
THEOREM StorePersistence == Spec => []StorePersistsLive
<1>1. Inv => StorePersistsLive
  BY DEF Inv
<1>. QED
  BY <1>1, InvInvariant, PTL

-----------------------------------------------------------------------------
(* One controller per card. *)

(* The controller map pairs the same handles with the same cards. *)
SameIdents == DOMAIN ctrl' = DOMAIN ctrl /\ \A h \in DOMAIN ctrl : ctrl'[h].ident = ctrl[h].ident

(* The Ok arm of a handler keeps each controller's identifier. *)
LEMMA AppliedIdents ==
    ASSUME NEW i, NEW s, NEW x, Applied(i, s, x)
    PROVE  present' = present /\ (ctrl' = ctrl \/ SameIdents)
BY DEF Applied, SameIdents

(* Every handler of a per-card request leaves the cards and their handles. *)
LEMMA CardIdents ==
    ASSUME NEW i \in Handles,
           \/ GetInfo(i) \/ GetStats(i) \/ GetFanControl(i) \/ GetPowerCap(i)
           \/ StartFanControl(i) \/ StopFanControl(i)
           \/ CommitGPUPowerStates(i) \/ ResetGPUPowerStates(i)
           \/ \E c \in Curves \cup {EmptyCurve} : SetFanCurve(i, c)
           \/ \E cap \in CapInputs : SetPowerCap(i, cap)
           \/ \E p \in Profiles : SetPowerProfile(i, p)
           \/ \E clk \in ClockInputs : SetGPUMaxPowerState(i, clk) \/ SetVRAMMaxClock(i, clk)
    PROVE  present' = present /\ (ctrl' = ctrl \/ SameIdents)
<1>1. CASE GetInfo(i) \/ GetStats(i) \/ GetFanControl(i) \/ GetPowerCap(i)
  BY <1>1 DEF GetInfo, GetStats, GetFanControl, GetPowerCap, Unknown, Found, Fails,
     Rejected, Reply
<1>2. CASE StartFanControl(i)
  BY <1>2, AppliedIdents DEF StartFanControl, Unknown, Fails, Rejected, Reply
<1>3. CASE StopFanControl(i)
  BY <1>3, AppliedIdents DEF StopFanControl, Unknown, Fails, Rejected, Reply
<1>4. CASE CommitGPUPowerStates(i)
  BY <1>4, AppliedIdents DEF CommitGPUPowerStates, Unknown, Reply
<1>5. CASE ResetGPUPowerStates(i)
  BY <1>5, AppliedIdents DEF ResetGPUPowerStates, Unknown, Fails, Rejected, Reply
<1>6. CASE \E c \in Curves \cup {EmptyCurve} : SetFanCurve(i, c)
  BY <1>6, AppliedIdents DEF SetFanCurve, Unknown, Rejected, Reply
<1>7. CASE \E cap \in CapInputs : SetPowerCap(i, cap)
  BY <1>7, AppliedIdents DEF SetPowerCap, Unknown, Fails, Rejected, Reply
<1>8. CASE \E p \in Profiles : SetPowerProfile(i, p)
  BY <1>8, AppliedIdents DEF SetPowerProfile, Unknown, Fails, Rejected, Reply
<1>9. CASE \E clk \in ClockInputs : SetGPUMaxPowerState(i, clk)
  BY <1>9, AppliedIdents DEF SetGPUMaxPowerState, Unknown, Rejected, Reply
<1>10. CASE \E clk \in ClockInputs : SetVRAMMaxClock(i, clk)
  BY <1>10, AppliedIdents DEF SetVRAMMaxClock, Unknown, Rejected, Reply
<1>. QED
  BY <1>1, <1>2, <1>3, <1>4, <1>5, <1>6, <1>7, <1>8, <1>9, <1>10

=============================================================================
