----------------------------- MODULE Connection -----------------------------
(***************************************************************************)
(* The daemon's transport, src/daemon/src/lib.rs listen and               *)
(* handle_connection: clients connect to the Unix socket and queue in the  *)
(* kernel's backlog; the one daemon thread accepts them in order and, for  *)
(* each, blocks in read_to_end until the client's side of the stream is    *)
(* shut, runs the request and writes the response.  What the request does *)
(* to the cards and the configuration is the business of module Daemon;   *)
(* here it is one step that may end the process (a Shutdown request or a  *)
(* panic in a handler).                                                    *)
(*                                                                         *)
(* The clients are not part of the repository: what they do is taken from *)
(* the specification (a request is written, the write side shut, and a    *)
(* client that gets no answer learns it from the transport closing).      *)
(***************************************************************************)
EXTENDS Sequences, SequencesExt

CONSTANTS
    Clients,      \* processes that talk to the daemon (the GUI, the CLI)
    NoClient      \* no connection is being handled

VARIABLES
    up,       \* the daemon process runs and its listener is bound
    backlog,  \* connections made and not yet accepted, oldest first
    cur,      \* the connection handle_connection works on, or NoClient
    stage,    \* where the loop is: "accept", "read" or "respond"
    cl        \* cl[c]: "idle", "open" (request written, write side open),
              \* "closed" (write side shut), "gone" (the client hung up),
              \* "answered" or "dropped" (the stream closed without answer)

connVars == <<up, backlog, cur, stage, cl>>

ClientStates == {"idle", "open", "closed", "gone", "answered", "dropped"}

(* The clients whose stream the daemon holds: queued or being handled. *)
Connected == ToSet(backlog) \cup (IF cur = NoClient THEN {} ELSE {cur})

(* The process ends: the kernel closes every stream it held, so every     *)
(* client still waiting sees the transport close.                          *)
Exit ==
    /\ up' = FALSE
    /\ backlog' = <<>> /\ cur' = NoClient /\ stage' = "accept"
    /\ cl' = [c \in Clients |->
                IF c \in Connected /\ cl[c] \in {"open", "closed"} THEN "dropped" ELSE cl[c]]

-----------------------------------------------------------------------------
(* The clients *)

(* A client connects and writes its request.  A refused connection (no     *)
(* daemon) is not a step.                                                  *)
Connect(c) ==
    /\ up /\ cl[c] = "idle"
    /\ cl' = [cl EXCEPT ![c] = "open"]
    /\ backlog' = Append(backlog, c)
    /\ UNCHANGED <<up, cur, stage>>

(* The client shuts its write side: read_to_end on the daemon sees EOF. *)
ShutWrite(c) ==
    /\ cl[c] = "open"
    /\ cl' = [cl EXCEPT ![c] = "closed"]
    /\ UNCHANGED <<up, backlog, cur, stage>>

(* The client stops waiting and hangs up. *)
GiveUp(c) ==
    /\ cl[c] \in {"open", "closed"}
    /\ cl' = [cl EXCEPT ![c] = "gone"]
    /\ UNCHANGED <<up, backlog, cur, stage>>

(* The client is done with its answer (or its closed stream) and may send *)
(* another request.                                                        *)
Again(c) ==
    /\ cl[c] \in {"answered", "dropped", "gone"}
    /\ c \notin Connected
    /\ cl' = [cl EXCEPT ![c] = "idle"]
    /\ UNCHANGED <<up, backlog, cur, stage>>

-----------------------------------------------------------------------------
(* The daemon thread *)

(* Daemon::new binds the socket again. *)
Start ==
    /\ ~up
    /\ up' = TRUE
    /\ UNCHANGED <<backlog, cur, stage, cl>>

(* A listener that hands out the newest connection first. *)
AcceptNewest ==
    /\ up /\ stage = "accept" /\ backlog # <<>>
    /\ cur' = Last(backlog)
    /\ backlog' = Front(backlog)
    /\ stage' = "read"
    /\ UNCHANGED <<up, cl>>

(* listener.incoming() yields the oldest pending connection. *)
Accept ==
    /\ up /\ stage = "accept" /\ backlog # <<>>
    /\ cur' = Head(backlog)
    /\ backlog' = Tail(backlog)
    /\ stage' = "read"
    /\ UNCHANGED <<up, cl>>

(* incoming() yields an Err: listen breaks out of its loop and returns,   *)
(* and the process ends.                                                   *)
AcceptError ==
    /\ up /\ stage = "accept"
    /\ Exit

(* read_to_end returns once the client's write side is shut (or the       *)
(* client has gone); the request decodes and its handler runs.            *)
Handle ==
    /\ up /\ stage = "read"
    /\ cl[cur] \in {"closed", "gone"}
    /\ stage' = "respond"
    /\ UNCHANGED <<up, backlog, cur, cl>>

(* The request does not decode: the stream is dropped without an answer.  *)
DecodeFailure ==
    /\ up /\ stage = "read"
    /\ cl[cur] \in {"closed", "gone"}
    /\ cl' = [cl EXCEPT ![cur] = IF @ = "closed" THEN "dropped" ELSE @]
    /\ cur' = NoClient /\ stage' = "accept"
    /\ UNCHANGED <<up, backlog>>

(* The handler ends the process: a Shutdown request, or a panic in a      *)
(* handler (a failed save).                                                *)
HandlerExit ==
    /\ up /\ stage = "respond"
    /\ Exit

(* write_all(..).expect(..): the answer reaches a client still waiting;   *)
(* to a client that hung up the write fails and the daemon panics.         *)
Respond ==
    /\ up /\ stage = "respond"
    /\ \/ /\ cl[cur] = "closed"
          /\ cl' = [cl EXCEPT ![cur] = "answered"]
          /\ cur' = NoClient /\ stage' = "accept"
          /\ UNCHANGED <<up, backlog>>
       \/ /\ cl[cur] = "gone"
          /\ Exit

ConnInit ==
    /\ up = TRUE
    /\ backlog = <<>> /\ cur = NoClient /\ stage = "accept"
    /\ cl = [c \in Clients |-> "idle"]

DaemonStep == Start \/ Accept \/ AcceptError \/ Handle \/ DecodeFailure \/ HandlerExit \/ Respond

ConnNext ==
    \/ DaemonStep
    \/ \E c \in Clients : Connect(c) \/ ShutWrite(c) \/ GiveUp(c) \/ Again(c)

(* The daemon is one thread in one loop: whenever its next step can be    *)
(* taken it eventually is.  The clients, the listener's errors and the    *)
(* restarts promise nothing.                                               *)
ConnFairness ==
    /\ WF_connVars(Accept)
    /\ WF_connVars(Handle)
    /\ WF_connVars(Respond)

ConnSpec == ConnInit /\ [][ConnNext]_connVars /\ ConnFairness

(* The clients the daemon is written for: each shuts its write side once  *)
(* the request is written.                                                 *)
ClosingClientsSpec == ConnSpec /\ \A c \in Clients : WF_connVars(ShutWrite(c))

-----------------------------------------------------------------------------
(* Properties *)

(* No client waits forever: a client that has written its request and     *)
(* shut its write side is eventually answered, or sees the stream close,   *)
(* or gives up itself.  The one-at-a-time loop of listen and the blocking *)
(* read_to_end must not leave a finished request behind.                   *)
RequestsServed ==
    \A c \in Clients : cl[c] = "closed" ~> cl[c] \in {"answered", "dropped", "gone"}

=============================================================================
