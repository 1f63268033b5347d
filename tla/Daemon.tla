------------------------------- MODULE Daemon -------------------------------
(***************************************************************************)
(* The LACT daemon, src/daemon/src/lib.rs: start-up and reconciliation of  *)
(* the discovered cards against the persisted configuration (Daemon::new,  *)
(* load_gpu_controllers), the one-request-per-connection dispatch loop     *)
(* (listen, handle_connection) with one action per Action variant, and the *)
(* Shutdown sequence.                                                      *)
(*                                                                         *)
(* The GpuController, HWMon and Config modules that the handlers call are  *)
(* not part of the repository snapshot: what each of their operations does *)
(* to the controller's GpuConfig and to the card's attributes is taken     *)
(* from the specification (its section 4.2).  A card and its GpuIdentifier *)
(* are one model value: identifiers are unique per physical slot.          *)
(*                                                                         *)
(* While the daemon is down, ctrl keeps the handle map the dead process    *)
(* last served and persisted; a restart builds a new one.                  *)
(***************************************************************************)
EXTENDS Integers, FiniteSets, Functions

CONSTANTS
    Devices,            \* the cards (each one its own GpuIdentifier)
    Handles,            \* the values random::<u32>() draws for a new card
    Curves,             \* fan curves with at least one point
    EmptyCurve,         \* the fan curve with no points
    DefaultCurve,       \* the curve of GpuConfig::new()
    CapMin, CapMax,     \* the power-cap range the hardware reports
    CapInputs,          \* power caps a client may ask for
    Profiles,           \* power profiles a client may ask for
    SupportedProfiles,  \* the profiles the card accepts
    AutoProfile,        \* PowerProfile::Auto
    Clocks,             \* clock values the card accepts for staging
    ClockInputs,        \* clock values a client may stage
    NoEdit,             \* no staged clock edit
    DefaultClock,       \* the clock state after the reset directive
    ClientConfigs,      \* whole configurations a client may send (SetConfig)
    Faults,             \* attribute writes and config-file I/O may fail
    CardIndex,          \* CardIndex[d]: the N of card d's /sys/class/drm/cardN
    Unprivileged        \* the daemon may be started with unprivileged = true

(* GpuConfig: the per-card settings the daemon persists. *)
Settings ==
    [fan: BOOLEAN, curve: Curves, cap: CapMin..CapMax, profile: SupportedProfiles,
     gpu: Clocks \cup {NoEdit}, vram: Clocks \cup {NoEdit}]

(* A gpu_configs entry, (GpuIdentifier, GpuConfig); a controller is the same *)
(* pair, (get_identifier(), get_config()).                                 *)
Entry == [ident: Devices, cfg: Settings]

(* A handle map: gpu_configs, or the gpu_controllers map. *)
IsStore(m) == DOMAIN m \subseteq Handles /\ m \in [DOMAIN m -> Entry]

(* The attributes of one card under its hwmon tree. *)
HwState ==
    [fan: {"auto", "manual"}, cap: CapMin..CapMax, profile: SupportedProfiles,
     gpu: Clocks \cup {DefaultClock}, vram: Clocks \cup {DefaultClock}]

ASSUME DaemonAssumptions ==
    /\ DefaultCurve \in Curves /\ EmptyCurve \notin Curves
    /\ CapMin \in Int /\ CapMax \in Int /\ CapMin =< CapMax /\ CapInputs \subseteq Int
    /\ SupportedProfiles \subseteq Profiles /\ AutoProfile \in SupportedProfiles
    /\ Clocks \subseteq ClockInputs /\ NoEdit \notin ClockInputs
    /\ DefaultClock \notin Clocks
    /\ \A c \in ClientConfigs : IsStore(c)
    /\ Faults \in BOOLEAN
    /\ CardIndex \in [Devices -> Nat]
    /\ Unprivileged \in BOOLEAN

(* The number of decimal digits of n. *)
DecimalWidth[n \in Nat] == IF n < 10 THEN 1 ELSE 1 + DecimalWidth[n \div 10]

(* entry.file_name().len() for the directory entry "card" ++ n. *)
NameLength(n) == 4 + DecimalWidth[n]

(* Every card's entry passes the `len() == 5` test: at most ten cards. *)
AllListed == \A d \in Devices : NameLength(CardIndex[d]) = 5

(* GpuConfig::new() *)
DefaultSettings ==
    [fan |-> FALSE, curve |-> DefaultCurve, cap |-> CapMax, profile |-> AutoProfile,
     gpu |-> NoEdit, vram |-> NoEdit]

(* The attributes of a card after power-on. *)
HwDefault ==
    [fan |-> "auto", cap |-> CapMax, profile |-> AutoProfile,
     gpu |-> DefaultClock, vram |-> DefaultClock]

(* Config::new(): no gpu_configs. *)
EmptyStore == [h \in {} |-> DefaultSettings]

(* HashMap::insert *)
Insert(m, k, v) == [x \in DOMAIN m \cup {k} |-> IF x = k THEN v ELSE m[x]]

VARIABLES
    running,    \* the daemon process is alive and serving
    present,    \* the cards under /sys/class/drm
    hw,         \* hw[d]: the attributes of card d
    ctrl,       \* gpu_controllers (while down: the last one served)
    config,     \* self.config.gpu_configs, in memory
    disk,       \* the gpu_configs of /etc/lact.json
    orphans,    \* cards driven by a fan loop no live controller owns
    socket,     \* SOCK_PATH exists
    privileged  \* the serving process was started with unprivileged = false

vars == <<running, present, hw, ctrl, config, disk, orphans, socket, privileged>>

-----------------------------------------------------------------------------
(* load_gpu_controllers *)

(* The cards the 'entries loop initializes: directory entries of five     *)
(* characters starting with "card" (lines 132-133).                       *)
Listed == {d \in present : NameLength(CardIndex[d]) = 5}

(* The gpu_configs entries whose identifier equals card d's (lines 147-165). *)
Matches(cfg, d) == {h \in DOMAIN cfg : cfg[h].ident = d}

(* The possible outcomes of the 'entries loop over the present cards: b     *)
(* maps the handle each card is registered under to the card.  A card with *)
(* a matching entry takes that entry's handle, whichever the HashMap       *)
(* visits first; a card with none takes a fresh random handle.  Fresh      *)
(* handles are drawn apart from the ones in use (a u32 collision is left   *)
(* out, see the README).                                                   *)
Assignments(cfg) ==
    {b \in UNION {[H -> present] : H \in SUBSET Handles} :
        /\ IsInjective(b) /\ Range(b) = Listed
        /\ \A h \in DOMAIN b :
              /\ h \in DOMAIN cfg => cfg[h].ident = b[h]
              /\ h \notin DOMAIN cfg => Matches(cfg, b[h]) = {}}

(* A gpu_configs rebuilt from the controllers alone: the entries of cards  *)
(* not present at this start are dropped.                                  *)
NewStoreDropsOld(cfg, b) ==
    [h \in DOMAIN b |->
        IF h \in DOMAIN cfg THEN cfg[h] ELSE [ident |-> b[h], cfg |-> DefaultSettings]]

(* The gpu_configs after the loop: an entry with default settings is        *)
(* inserted for every card met for the first time.                         *)
NewStore(cfg, b) ==
    [h \in DOMAIN cfg \cup DOMAIN b |->
        IF h \in DOMAIN cfg THEN cfg[h] ELSE [ident |-> b[h], cfg |-> DefaultSettings]]

(* The controller map the loop returns: a known card carries its persisted *)
(* settings (controller.load_config), a new one GpuConfig::new().           *)
NewControllers(cfg, b) == Restrict(NewStore(cfg, b), DOMAIN b)

(* GpuController::load_config: the loaded settings are written to the card. *)
Loaded(x, s) ==
    [x EXCEPT !.fan = IF s.fan THEN "manual" ELSE "auto", !.cap = s.cap,
              !.profile = s.profile]

LoadHw(cfg, b) ==
    LET known == DOMAIN b \cap DOMAIN cfg
    IN  [d \in Devices |->
            IF \E h \in known : b[h] = d
            THEN Loaded(hw[d], cfg[CHOOSE h \in known : b[h] = d].cfg)
            ELSE hw[d]]

-----------------------------------------------------------------------------
(* Daemon::new and the machine around the process *)

(* A start-up that ignores /etc/lact.json and always begins afresh. *)
RestartFresh ==
    /\ ~running
    /\ \E b \in Assignments(EmptyStore) :
         /\ config' = NewStore(EmptyStore, b)
         /\ hw' = LoadHw(EmptyStore, b)
         /\ disk' = config'
         /\ ctrl' = NewControllers(EmptyStore, b) /\ running' = TRUE
    /\ orphans' = {} /\ socket' = TRUE /\ privileged' = TRUE
    /\ UNCHANGED present

(* The modes a start may be in: privileged, or unprivileged where allowed. *)
StartModes == {TRUE} \cup (IF Unprivileged THEN {FALSE} ELSE {})

(* The configurations Daemon::new may begin from: a privileged start reads *)
(* /etc/lact.json, and on any read error takes Config::new(); an            *)
(* unprivileged one always takes Config::new() (lines 82-97).               *)
Readable(priv) ==
    IF priv THEN {disk} \cup (IF Faults THEN {EmptyStore} ELSE {}) ELSE {EmptyStore}

(* Daemon::new with the test of line 103 inverted: only an unprivileged   *)
(* start saves the reconciled configuration.                              *)
RestartSaveInverted ==
    /\ ~running
    /\ \E priv \in StartModes :
       \E loaded \in Readable(priv) :
       \E b \in Assignments(loaded) :
          /\ config' = NewStore(loaded, b)
          /\ hw' = LoadHw(loaded, b)
          /\ privileged' = priv
          /\ ctrl' = NewControllers(loaded, b) /\ running' = TRUE
          /\ IF priv THEN UNCHANGED disk ELSE disk' = config'
    /\ orphans' = {} /\ socket' = TRUE
    /\ UNCHANGED present

(* The daemon starts: the stale socket is removed and bound again, the     *)
(* configuration read, the cards reconciled, and the result saved unless  *)
(* the start is unprivileged (line 103); a failed save panics.            *)
Restart ==
    /\ ~running
    /\ \E priv \in StartModes :
       \E loaded \in Readable(priv) :
       \E b \in Assignments(loaded) :
          /\ config' = NewStore(loaded, b)
          /\ hw' = LoadHw(loaded, b)
          /\ privileged' = priv
          /\ \/ /\ ~priv
                /\ ctrl' = NewControllers(loaded, b) /\ running' = TRUE
                /\ UNCHANGED disk
             \/ /\ priv
                /\ disk' = config'
                /\ ctrl' = NewControllers(loaded, b) /\ running' = TRUE
             \/ /\ priv /\ Faults
                /\ running' = FALSE
                /\ UNCHANGED <<disk, ctrl>>
    /\ orphans' = {} /\ socket' = TRUE
    /\ UNCHANGED present

(* The machine reboots while the daemon is down: cards may be added or      *)
(* removed, every card comes up with its default attributes, /tmp is empty. *)
Reboot ==
    /\ ~running
    /\ present' \in SUBSET Devices
    /\ hw' = [d \in Devices |-> HwDefault]
    /\ socket' = FALSE
    /\ UNCHANGED <<running, ctrl, config, disk, orphans, privileged>>

-----------------------------------------------------------------------------
(* handle_connection *)

(* stream.write_all(..).expect(..): the response (a DaemonResponse or a    *)
(* DaemonError; its content is not modelled) reaches the client, or the    *)
(* client has gone and the daemon panics.                                  *)
Respond == running' \in BOOLEAN

(* config.save() may fail: on an I/O fault, and always may when the       *)
(* process is unprivileged and /etc/lact.json is not writable to it.      *)
SaveMayFail == Faults \/ ~privileged

(* A handler that changes nothing but writes a response. *)
Reply == Respond /\ UNCHANGED <<present, hw, ctrl, config, disk, orphans, socket, privileged>>

(* The None arm of a per-card handler: DaemonError::InvalidID. *)
Unknown(i) == i \notin DOMAIN ctrl /\ Reply

(* A per-card query answered from the controller. *)
Found(i) == i \in DOMAIN ctrl /\ Reply

(* A per-card call refused (cond) or failing on I/O (Faults): the Err arm. *)
Rejected(i, cond) == i \in DOMAIN ctrl /\ cond /\ Reply
Fails(i) == Rejected(i, Faults)

(* An Ok arm that saves the configuration before inserting the entry. *)
AppliedSavedEarly(i, s, x) ==
    LET c == [ident |-> ctrl[i].ident, cfg |-> s]
    IN  /\ i \in DOMAIN ctrl
        /\ hw' = [hw EXCEPT ![ctrl[i].ident] = x]
        /\ config' = Insert(config, i, c)
        /\ disk' = config
        /\ ctrl' = [ctrl EXCEPT ![i] = c]
        /\ Respond
        /\ UNCHANGED <<present, orphans, socket, privileged>>

(* An Ok arm that updates the controller but not gpu_configs. *)
AppliedUnrecorded(i, s, x) ==
    /\ i \in DOMAIN ctrl
    /\ hw' = [hw EXCEPT ![ctrl[i].ident] = x]
    /\ ctrl' = [ctrl EXCEPT ![i].cfg = s]
    /\ Respond
    /\ UNCHANGED <<present, config, disk, orphans, socket, privileged>>

(* The Ok arm of a mutating handler: the card's attributes become x, the    *)
(* controller's settings s; the entry (get_identifier(), get_config()) is  *)
(* inserted into gpu_configs and the configuration saved, whose failure    *)
(* panics before any response.                                             *)
Applied(i, s, x) ==
    LET c == [ident |-> ctrl[i].ident, cfg |-> s]
    IN  /\ i \in DOMAIN ctrl
        /\ hw' = [hw EXCEPT ![ctrl[i].ident] = x]
        /\ config' = Insert(config, i, c)
        /\ \/ /\ disk' = config'
              /\ ctrl' = [ctrl EXCEPT ![i] = c]
              /\ Respond
           \/ /\ SaveMayFail
              /\ running' = FALSE
              /\ UNCHANGED <<disk, ctrl>>
        /\ UNCHANGED <<present, orphans, socket, privileged>>

Cfg(i) == ctrl[i].cfg
Attrs(i) == hw[ctrl[i].ident]

CheckAlive == running /\ Reply

GetConfig == running /\ Reply

GetGpus == running /\ Reply

GetInfo(i) == running /\ (Unknown(i) \/ Found(i))

GetStats(i) == running /\ (Unknown(i) \/ Found(i) \/ Fails(i))

GetFanControl(i) == running /\ (Unknown(i) \/ Found(i) \/ Fails(i))

GetPowerCap(i) == running /\ (Unknown(i) \/ Found(i) \/ Fails(i))

(* start_fan_control with the gpu_configs insert left out of its Ok arm. *)
StartFanControlUnrecorded(i) ==
    /\ running
    /\ \/ Unknown(i)
       \/ AppliedUnrecorded(i, [Cfg(i) EXCEPT !.fan = TRUE],
                            [Attrs(i) EXCEPT !.fan = "manual"])
       \/ Fails(i)

(* start_fan_control: PWM to manual mode, the loop started. *)
StartFanControl(i) ==
    /\ running
    /\ \/ Unknown(i)
       \/ Applied(i, [Cfg(i) EXCEPT !.fan = TRUE], [Attrs(i) EXCEPT !.fan = "manual"])
       \/ Fails(i)

(* stop_fan_control: the loop stopped, PWM handed back to the firmware. *)
StopFanControl(i) ==
    /\ running
    /\ \/ Unknown(i)
       \/ Applied(i, [Cfg(i) EXCEPT !.fan = FALSE], [Attrs(i) EXCEPT !.fan = "auto"])
       \/ Fails(i)

(* set_fan_curve: a curve without points is refused. *)
SetFanCurve(i, curve) ==
    /\ running
    /\ \/ Unknown(i)
       \/ curve \in Curves /\ Applied(i, [Cfg(i) EXCEPT !.curve = curve], Attrs(i))
       \/ Rejected(i, curve \notin Curves)

(* set_power_cap without the range check. *)
SetPowerCapUnchecked(i, cap) ==
    /\ running
    /\ \/ Unknown(i)
       \/ Applied(i, [Cfg(i) EXCEPT !.cap = cap], [Attrs(i) EXCEPT !.cap = cap])
       \/ Fails(i)

(* set_power_cap: a cap outside the reported range is refused. *)
SetPowerCap(i, cap) ==
    /\ running
    /\ \/ Unknown(i)
       \/ /\ cap \in CapMin..CapMax
          /\ Applied(i, [Cfg(i) EXCEPT !.cap = cap], [Attrs(i) EXCEPT !.cap = cap])
       \/ Rejected(i, cap \notin CapMin..CapMax)
       \/ Fails(i)

(* set_power_profile: an unsupported profile is refused before the write. *)
SetPowerProfile(i, p) ==
    /\ running
    /\ \/ Unknown(i)
       \/ /\ p \in SupportedProfiles
          /\ Applied(i, [Cfg(i) EXCEPT !.profile = p], [Attrs(i) EXCEPT !.profile = p])
       \/ Rejected(i, p \notin SupportedProfiles)
       \/ Fails(i)

(* set_gpu_max_power_state: the edit is staged, nothing is written. *)
SetGPUMaxPowerState(i, clk) ==
    /\ running
    /\ \/ Unknown(i)
       \/ clk \in Clocks /\ Applied(i, [Cfg(i) EXCEPT !.gpu = clk], Attrs(i))
       \/ Rejected(i, clk \notin Clocks)

(* set_vram_max_clockspeed staging a clock the card does not accept. *)
SetVRAMMaxClockUnchecked(i, clk) ==
    /\ running
    /\ \/ Unknown(i)
       \/ Applied(i, [Cfg(i) EXCEPT !.vram = clk], Attrs(i))

(* set_vram_max_clockspeed: the edit is staged, nothing is written. *)
SetVRAMMaxClock(i, clk) ==
    /\ running
    /\ \/ Unknown(i)
       \/ clk \in Clocks /\ Applied(i, [Cfg(i) EXCEPT !.vram = clk], Attrs(i))
       \/ Rejected(i, clk \notin Clocks)

(* The clock attribute after the staged edit e is written. *)
Written(old, e) == IF e = NoEdit THEN old ELSE e

(* commit_gpu_power_states clearing the staged edits of the controller even *)
(* when the write fails, with gpu_configs left as it was.                 *)
CommitClearsOnFailure(i) ==
    /\ running
    /\ \/ Unknown(i)
       \/ Applied(i, [Cfg(i) EXCEPT !.gpu = NoEdit, !.vram = NoEdit],
                  [Attrs(i) EXCEPT !.gpu = Written(@, Cfg(i).gpu),
                                   !.vram = Written(@, Cfg(i).vram)])
       \/ /\ i \in DOMAIN ctrl /\ Faults
          /\ hw' = [hw EXCEPT ![ctrl[i].ident].gpu = Written(@, Cfg(i).gpu)]
          /\ ctrl' = [ctrl EXCEPT ![i].cfg.gpu = NoEdit, ![i].cfg.vram = NoEdit]
          /\ Respond
          /\ UNCHANGED <<present, config, disk, orphans, socket, privileged>>

(* commit_gpu_power_states: the staged edits are written and applied, then *)
(* cleared.  A write that fails part-way leaves the GPU clock written and  *)
(* the VRAM clock not, with the edits still staged.                        *)
CommitGPUPowerStates(i) ==
    /\ running
    /\ \/ Unknown(i)
       \/ Applied(i, [Cfg(i) EXCEPT !.gpu = NoEdit, !.vram = NoEdit],
                  [Attrs(i) EXCEPT !.gpu = Written(@, Cfg(i).gpu),
                                   !.vram = Written(@, Cfg(i).vram)])
       \/ /\ i \in DOMAIN ctrl /\ Faults
          /\ hw' = [hw EXCEPT ![ctrl[i].ident].gpu = Written(@, Cfg(i).gpu)]
          /\ Respond
          /\ UNCHANGED <<present, ctrl, config, disk, orphans, socket, privileged>>

(* reset_gpu_power_states: staged edits dropped, the reset directive written. *)
ResetGPUPowerStates(i) ==
    /\ running
    /\ \/ Unknown(i)
       \/ Applied(i, [Cfg(i) EXCEPT !.gpu = NoEdit, !.vram = NoEdit],
                  [Attrs(i) EXCEPT !.gpu = DefaultClock, !.vram = DefaultClock])
       \/ Fails(i)

(* SetConfig: the store is replaced, the controller map cleared and rebuilt *)
(* by load_gpu_controllers, and saved.  Clearing the map drops the         *)
(* controllers without stopping their fan loops.                           *)
SetConfig(new) ==
    /\ running
    /\ \E b \in Assignments(new) :
         /\ config' = NewStore(new, b)
         /\ hw' = LoadHw(new, b)
         /\ orphans' = orphans \cup {ctrl[h].ident : h \in {h \in DOMAIN ctrl : Cfg(h).fan}}
         /\ \/ /\ disk' = config'
               /\ ctrl' = NewControllers(new, b)
               /\ Respond
            \/ /\ SaveMayFail
               /\ running' = FALSE
               /\ UNCHANGED <<disk, ctrl>>
    /\ UNCHANGED <<present, socket, privileged>>

(* The attributes of a card the Shutdown loop has reset; the fan is handed *)
(* back only when the stored entry says fan control is enabled.            *)
ShutdownHw(x, stopFan) ==
    [x EXCEPT !.gpu = DefaultClock, !.vram = DefaultClock, !.profile = AutoProfile,
              !.fan = IF stopFan THEN "auto" ELSE @]

(* Shutdown: each controller, in HashMap order, is reset, its clock state  *)
(* committed, its profile set to Auto and its fan loop stopped if          *)
(* gpu_configs says so, all results ignored; then the socket is removed    *)
(* inside the same loop body.  The second removal fails and panics, so at  *)
(* most two controllers are reached.  With Faults a reached card may keep  *)
(* its attributes.                                                         *)
Shutdown ==
    /\ running
    /\ \E first \in SUBSET DOMAIN ctrl, failed \in SUBSET DOMAIN ctrl :
         LET n == Cardinality(DOMAIN ctrl)
             done == first \ failed
         IN  /\ Cardinality(first) = IF n < 2 THEN n ELSE 2
             /\ Faults \/ failed = {}
             /\ hw' = [d \in Devices |->
                         IF \E h \in done : ctrl[h].ident = d
                         THEN ShutdownHw(hw[d],
                                config[CHOOSE h \in done : ctrl[h].ident = d].cfg.fan)
                         ELSE hw[d]]
    /\ socket' = (socket /\ DOMAIN ctrl = {})
    /\ running' = FALSE
    /\ UNCHANGED <<present, ctrl, config, disk, orphans, privileged>>

(* A request that does not deserialize: no response, nothing changes. *)
DecodeFailure ==
    /\ running
    /\ UNCHANGED vars

(* listener.incoming() yields an error (listen breaks and returns) or      *)
(* read_to_end fails and unwraps: the process ends.                        *)
ConnectionError ==
    /\ running
    /\ running' = FALSE
    /\ UNCHANGED <<present, hw, ctrl, config, disk, orphans, socket, privileged>>

-----------------------------------------------------------------------------

Init ==
    /\ running = FALSE
    /\ present \in SUBSET Devices
    /\ hw = [d \in Devices |-> HwDefault]
    /\ ctrl = EmptyStore /\ config = EmptyStore /\ disk = EmptyStore
    /\ orphans = {}
    /\ socket = FALSE
    /\ privileged = TRUE

Next ==
    \/ Restart \/ Reboot
    \/ ConnectionError \/ DecodeFailure
    \/ CheckAlive \/ GetConfig \/ GetGpus \/ Shutdown
    \/ \E new \in ClientConfigs : SetConfig(new)
    \/ \E i \in Handles :
         \/ GetInfo(i) \/ GetStats(i) \/ GetFanControl(i) \/ GetPowerCap(i)
         \/ StartFanControl(i) \/ StopFanControl(i)
         \/ CommitGPUPowerStates(i) \/ ResetGPUPowerStates(i)
         \/ \E c \in Curves \cup {EmptyCurve} : SetFanCurve(i, c)
         \/ \E cap \in CapInputs : SetPowerCap(i, cap)
         \/ \E p \in Profiles : SetPowerProfile(i, p)
         \/ \E clk \in ClockInputs : SetGPUMaxPowerState(i, clk) \/ SetVRAMMaxClock(i, clk)

Spec == Init /\ [][Next]_vars

-----------------------------------------------------------------------------
(* Properties *)

TypeOK ==
    /\ running \in BOOLEAN
    /\ present \subseteq Devices
    /\ hw \in [Devices -> HwState]
    /\ IsStore(ctrl) /\ IsStore(config) /\ IsStore(disk)
    /\ orphans \subseteq Devices
    /\ socket \in BOOLEAN
    /\ privileged \in BOOLEAN

(* Write-through persistence (every mutating handler, SetConfig and        *)
(* Daemon::new): while the daemon serves, the in-memory gpu_configs entry  *)
(* of every controller is that controller's (identifier, settings), which  *)
(* Shutdown's gpu_configs.get(id).unwrap() relies on, and a privileged     *)
(* daemon's /etc/lact.json holds exactly the in-memory configuration.      *)
StorePersistsLive ==
    running =>
        /\ \A h \in DOMAIN ctrl : h \in DOMAIN config /\ config[h] = ctrl[h]
        /\ privileged => disk = config

(* load_gpu_controllers registers every present card under exactly one     *)
(* handle and nothing else: no two controllers drive one card.             *)
OneControllerPerDevice ==
    running =>
        /\ {ctrl[h].ident : h \in DOMAIN ctrl} = present
        /\ \A h1, h2 \in DOMAIN ctrl : ctrl[h1].ident = ctrl[h2].ident => h1 = h2

(* Handles are stable across restarts (Daemon::new): a card still present  *)
(* when the daemon comes back up gets the handle it had before the crash,  *)
(* exit or reboot.                                                         *)
HandleStable ==
    [][~running /\ running' =>
         \A h \in DOMAIN ctrl :
            ctrl[h].ident \in present' => h \in DOMAIN ctrl' /\ ctrl'[h].ident = ctrl[h].ident]_vars

(* The Shutdown request leaves every controlled card with its clock state  *)
(* reset, the Auto profile, and, where fan control was on, its fan handed  *)
(* back to the firmware.                                                   *)
ShutdownRestores ==
    [][Shutdown =>
         \A h \in DOMAIN ctrl :
            LET x == hw'[ctrl[h].ident]
            IN  /\ x.gpu = DefaultClock /\ x.vram = DefaultClock
                /\ x.profile = AutoProfile
                /\ Cfg(h).fan => x.fan = "auto"]_vars

(* Every fan loop that drives a card belongs to that card's live           *)
(* controller: SetConfig must stop a loop before it drops its controller.  *)
FanLoopsOwned == running => orphans = {}

(* A read-only (unprivileged) daemon leaves /etc/lact.json alone: the     *)
(* specification says the caller persists the reconciled store "except    *)
(* when running in a read-only/unprivileged mode".                        *)
ReadOnlyKeepsFile == [][running /\ ~privileged => UNCHANGED disk]_vars

(* A card's fan is under manual control only while the daemon that drives *)
(* it runs: the specification has the accept/dispatch loop repeat until    *)
(* the Shutdown request, which hands every controlled fan back before the  *)
(* process exits.                                                          *)
FanHandedBack == \A d \in Devices : hw[d].fan = "manual" => running

-----------------------------------------------------------------------------
(* Refinement *)

(* The handle -> identifier map of a configuration or a controller map. *)
Idents(m) == [h \in DOMAIN m |-> m[h].ident]

Registry == INSTANCE HandleRegistry
              WITH Cards <- Devices, up <- running, cards <- present,
                   reg <- Idents(disk), live <- Idents(ctrl)

(* The daemon keeps the handle promise of HandleRegistry: a start keeps    *)
(* every handle /etc/lact.json gives a present card and adds the fresh     *)
(* ones, no request but SetConfig touches the persisted handles, and       *)
(* SetConfig installs one handle per card.                                 *)
ImplementsRegistry == Registry!RegSpec

=============================================================================
