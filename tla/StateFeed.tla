------------------------------ MODULE StateFeed ------------------------------
(***************************************************************************)
(* How published states reach the screen: the hub that fans states out,    *)
(* the events pipe with its accept loop and one forwarding thread per      *)
(* client, the app's thread that keeps the connection, and the window that *)
(* polls what this thread shares.  Service and apps come and go.           *)
(*                                                                         *)
(* A state is its serial number: the service's states are counted from the *)
(* first one of all, so a greater number is a newer state.                 *)
(***************************************************************************)
EXTENDS Naturals, Sequences

CONSTANTS
  Clients,      \* apps that connect
  Ready,        \* the states with readings to record
  PipeSize,     \* events a pipe buffers
  MaxState,     \* states the service publishes at most
  Connecting, Unavailable, None

States  == 0..MaxState
UiState == States \cup {Connecting, Unavailable}

ASSUME SizesAssumption == PipeSize \in Nat /\ MaxState \in Nat
ASSUME FeedMarkersAssumption ==
  /\ Connecting \notin Nat /\ Unavailable \notin Nat /\ None \notin Clients
ASSUME ReadyAssumption == Ready \subseteq States

VARIABLES
  up,          \* the service runs
  latest,      \* Hub::latest
  telling,     \* publish has stored a state and not sent it yet
  listener,    \* the accept loop, in or outside of Hub::subscribe
  registered,  \* Hub::clients
  forwarding,  \* clients whose forwarding thread still has its receiver
  queue,       \* what these threads have to forward
  link, pipe,  \* per client: its events connection and what is in it
  app          \* per client: event thread, Shared, window

hubVars == <<up, latest, telling, listener, registered, forwarding, queue>>
vars == <<hubVars, link, pipe, app>>

(* link: no connection, both ends open, the service's end closed, the      *)
(* app's end closed.                                                       *)
Link == {"off", "on", "ended", "broken"}

Listener == [at: {"create", "listen", "accepted", "read"},
             client: Clients \cup {None}, first: States]

App == [thread: {"connect", "reading", "gone"},
        shared: UiState,    \* Shared::state
        adding: BOOLEAN,    \* state stored, Shared::seq not yet increased
        news: BOOLEAN,      \* Shared::seq differs from the window's seen_seq
        loading: BOOLEAN,   \* the window has read seq and not yet the state
        view: UiState,      \* what the window shows
        frame: States]      \* newest state in its sensor history

Init ==
  /\ up = TRUE /\ latest = 0 /\ telling = FALSE
  /\ listener = [at |-> "create", client |-> None, first |-> 0]
  /\ registered = {} /\ forwarding = {}
  /\ queue = [c \in Clients |-> <<>>]
  /\ link = [c \in Clients |-> "off"] /\ pipe = [c \in Clients |-> <<>>]
  /\ app = [c \in Clients |->
       [thread |-> "connect", shared |-> Connecting, adding |-> FALSE,
        news |-> FALSE, loading |-> FALSE, view |-> Connecting, frame |-> 0]]

-----------------------------------------------------------------------------
(* The hub.  Its two locks are taken one after the other.                  *)

(* publish, first half: a new state is stored, or by a poll the same again *)
(* (modelled once all earlier ones are forwarded).                         *)
Publish ==
  /\ up /\ ~telling /\ latest < MaxState
  /\ latest' = latest + 1 /\ telling' = TRUE
  /\ UNCHANGED <<up, listener, registered, forwarding, queue, link, pipe, app>>

(* Mutant: an unchanged state is not published again.                      *)
RepublishNever == FALSE /\ UNCHANGED vars

Republish ==
  /\ up /\ ~telling /\ \A c \in Clients : queue[c] = <<>>
  /\ telling' = TRUE
  /\ UNCHANGED <<up, latest, listener, registered, forwarding, queue, link,
                 pipe, app>>

(* Mutant: dead clients are kept.                                          *)
TellKeeps ==
  /\ telling
  /\ telling' = FALSE
  /\ queue' = [c \in Clients |->
       IF c \in registered \cap forwarding THEN Append(queue[c], latest)
                                           ELSE queue[c]]
  /\ UNCHANGED <<up, latest, listener, registered, forwarding, link, pipe, app>>

(* publish, second half: the state goes to every client; those whose       *)
(* receiver is gone are dropped.                                           *)
Tell ==
  /\ telling
  /\ telling' = FALSE
  /\ registered' = registered \cap forwarding
  /\ queue' = [c \in Clients |->
       IF c \in registered' THEN Append(queue[c], latest) ELSE queue[c]]
  /\ UNCHANGED <<up, latest, listener, forwarding, link, pipe, app>>

-----------------------------------------------------------------------------
(* The events pipe.                                                        *)

Listen ==
  /\ up /\ listener.at = "create"
  /\ listener' = [listener EXCEPT !.at = "listen"]
  /\ UNCHANGED <<up, latest, telling, registered, forwarding, queue, link,
                 pipe, app>>

(* Mutant: the sender is registered before the state read is sent on it.   *)
ReadRegistered ==
  /\ listener.at = "accepted"
  /\ listener' = [listener EXCEPT !.at = "read", !.first = latest]
  /\ registered' = registered \cup {listener.client}
  /\ forwarding' = forwarding \cup {listener.client}
  /\ UNCHANGED <<up, latest, telling, queue, link, pipe, app>>

(* subscribe, first half: the latest state is read, and the first of what  *)
(* the client gets.                                                        *)
Read ==
  /\ listener.at = "accepted"
  /\ listener' = [listener EXCEPT !.at = "read", !.first = latest]
  /\ UNCHANGED <<up, latest, telling, registered, forwarding, queue, link,
                 pipe, app>>

(* subscribe, second half; the accept loop then starts the forwarding      *)
(* thread and goes on.                                                     *)
Register ==
  LET c == listener.client
  IN  /\ listener.at = "read"
      /\ queue' = [queue EXCEPT ![c] = Append(@, listener.first)]
      /\ registered' = registered \cup {c}
      /\ forwarding' = forwarding \cup {c}
      /\ listener' = [listener EXCEPT !.at = "create", !.client = None]
      /\ UNCHANGED <<up, latest, telling, link, pipe, app>>

Forward(c) ==
  /\ c \in forwarding /\ queue[c] # <<>>
  /\ link[c] = "on" /\ Len(pipe[c]) < PipeSize
  /\ pipe' = [pipe EXCEPT ![c] = Append(@, Head(queue[c]))]
  /\ queue' = [queue EXCEPT ![c] = Tail(@)]
  /\ UNCHANGED <<up, latest, telling, listener, registered, forwarding, link,
                 app>>

(* The write fails: the thread ends, with its receiver.                    *)
ForwardFails(c) ==
  /\ c \in forwarding /\ queue[c] # <<>> /\ link[c] = "broken"
  /\ forwarding' = forwarding \ {c}
  /\ queue' = [queue EXCEPT ![c] = <<>>]
  /\ link' = [link EXCEPT ![c] = "off"]
  /\ UNCHANGED <<up, latest, telling, listener, registered, pipe, app>>

(* The service process ends; what its pipes still hold may be lost.  The   *)
(* next process starts with a hub that says Detecting.                     *)
Stop ==
  /\ up
  /\ up' = FALSE /\ telling' = FALSE
  /\ listener' = [listener EXCEPT !.at = "create", !.client = None]
  /\ registered' = {} /\ forwarding' = {}
  /\ queue' = [c \in Clients |-> <<>>]
  /\ link' = [c \in Clients |-> IF link[c] = "on" THEN "ended"
                                ELSE IF link[c] = "broken" THEN "off"
                                ELSE link[c]]
  /\ \E lost \in SUBSET Clients :
       pipe' = [c \in Clients |-> IF c \in lost THEN <<>> ELSE pipe[c]]
  /\ UNCHANGED <<latest, app>>

Start ==
  /\ ~up /\ latest < MaxState
  /\ up' = TRUE /\ latest' = latest + 1
  /\ UNCHANGED <<telling, listener, registered, forwarding, queue, link, pipe,
                 app>>

-----------------------------------------------------------------------------
(* The app: its event thread.  Shared::publish stores the state and then   *)
(* increases the sequence number.                                          *)

Stored(c, state, thread) ==
  app' = [app EXCEPT ![c] =
            [@ EXCEPT !.shared = state, !.adding = TRUE, !.thread = thread]]

Connect(c) ==
  /\ app[c].thread = "connect" /\ ~app[c].adding
  /\ up /\ listener.at = "listen"
  /\ listener' = [listener EXCEPT !.at = "accepted", !.client = c]
  /\ link' = [link EXCEPT ![c] = "on"]
  /\ Stored(c, Connecting, "reading")
  /\ UNCHANGED <<up, latest, telling, registered, forwarding, queue, pipe>>

(* No instance of the pipe is free: try again later.                       *)
ConnectFails(c) ==
  /\ app[c].thread = "connect" /\ ~app[c].adding
  /\ ~up \/ listener.at # "listen"
  /\ Stored(c, Unavailable, "connect")
  /\ UNCHANGED <<hubVars, link, pipe>>

Receive(c) ==
  /\ app[c].thread = "reading" /\ ~app[c].adding /\ pipe[c] # <<>>
  /\ pipe' = [pipe EXCEPT ![c] = Tail(@)]
  /\ Stored(c, Head(pipe[c]), "reading")
  /\ UNCHANGED <<hubVars, link>>

Lose(c) ==
  /\ app[c].thread = "reading" /\ ~app[c].adding
  /\ pipe[c] = <<>> /\ link[c] = "ended"
  /\ link' = [link EXCEPT ![c] = "off"]
  /\ Stored(c, Unavailable, "connect")
  /\ UNCHANGED <<hubVars, pipe>>

(* Mutant: a flag is flipped in place of a number that grows.              *)
AddFlipped(c) ==
  /\ app[c].adding
  /\ app' = [app EXCEPT ![c] = [@ EXCEPT !.adding = FALSE, !.news = ~@]]
  /\ UNCHANGED <<hubVars, link, pipe>>

Add(c) ==
  /\ app[c].adding
  /\ app' = [app EXCEPT ![c] = [@ EXCEPT !.adding = FALSE, !.news = TRUE]]
  /\ UNCHANGED <<hubVars, link, pipe>>

(* Its window's refresh: the sequence number, then the state.              *)
Load(c) ==
  /\ app[c].news /\ ~app[c].loading /\ app[c].thread # "gone"
  /\ app' = [app EXCEPT ![c] = [@ EXCEPT !.news = FALSE, !.loading = TRUE]]
  /\ UNCHANGED <<hubVars, link, pipe>>

(* Mutant: every state is recorded.                                        *)
RecordAll(c) == app[c].shared

(* The sensor history records a state that has readings.                   *)
Record(c) == IF app[c].shared \in Ready THEN app[c].shared ELSE app[c].frame

Show(c) ==
  /\ app[c].loading
  /\ app' = [app EXCEPT ![c] =
                [@ EXCEPT !.loading = FALSE, !.view = app[c].shared,
                          !.frame = Record(c)]]
  /\ UNCHANGED <<hubVars, link, pipe>>

(* The app is closed.                                                      *)
Quit(c) ==
  /\ app[c].thread # "gone"
  /\ app' = [app EXCEPT ![c] =
                [@ EXCEPT !.thread = "gone", !.adding = FALSE,
                          !.loading = FALSE]]
  /\ link' = [link EXCEPT ![c] = IF @ = "on" THEN "broken" ELSE "off"]
  /\ pipe' = [pipe EXCEPT ![c] = <<>>]
  /\ UNCHANGED hubVars

-----------------------------------------------------------------------------
Hub     == Tell \/ Republish
Accept  == Listen \/ Read \/ Register
Client(c) == \/ Forward(c) \/ ForwardFails(c)
             \/ ConnectFails(c) \/ Receive(c) \/ Lose(c) \/ Add(c)
Window(c) == Load(c) \/ Show(c)

Next == \/ Publish \/ Hub \/ Accept \/ Stop \/ Start
        \/ \E c \in Clients :
             Client(c) \/ Connect(c) \/ Window(c) \/ Quit(c)

Spec == Init /\ [][Next]_vars

(* Every thread runs, polls go on, and an app that keeps trying gets a     *)
(* free instance of the pipe at last.  Nothing is assumed of new states,   *)
(* of the service's end or start, and of the user.                         *)
Fairness ==
  /\ WF_vars(Tell) /\ SF_vars(Republish) /\ WF_vars(Accept)
  /\ \A c \in Clients :
       /\ WF_vars(Forward(c) \/ ForwardFails(c))
       /\ WF_vars(Receive(c) \/ Lose(c) \/ Add(c)) /\ SF_vars(Connect(c))
       /\ WF_vars(Window(c))

FairSpec == Spec /\ Fairness

-----------------------------------------------------------------------------
TypeOK ==
  /\ up \in BOOLEAN /\ latest \in States /\ telling \in BOOLEAN
  /\ listener \in Listener
  /\ registered \in SUBSET Clients /\ forwarding \in SUBSET Clients
  /\ queue \in [Clients -> Seq(States)] /\ pipe \in [Clients -> Seq(States)]
  /\ link \in [Clients -> Link] /\ app \in [Clients -> App]

(* What is on its way to a client, the next to arrive first.               *)
Sorted(s) == \A i, j \in 1..Len(s) : i <= j => s[i] <= s[j]

(* The states on their way to a client are in the order they were          *)
(* published in, none older than what it has recorded and none newer than  *)
(* the hub's: whatever publish and subscribe do to each other.             *)
FeedInOrder ==
  \A c \in Clients :
    LET feed == pipe[c] \o queue[c]
    IN  /\ Sorted(feed)
        /\ \A i \in 1..Len(feed) : app[c].frame <= feed[i] /\ feed[i] <= latest

(* The sensor history of an app never steps back to an older state, across *)
(* any number of connections and services.                                 *)
FramesInOrder == [][\A c \in Clients : app[c].frame <= app'[c].frame]_vars

(* A window that has seen no news shows what its event thread shares.      *)
NothingMissed ==
  \A c \in Clients :
    app[c].news \/ app[c].adding \/ app[c].loading \/ app[c].thread = "gone"
      \/ app[c].view = app[c].shared

(* A state that lasts is shown in every window that stays open.            *)
ViewCatchesUp ==
  \A c \in Clients, s \in States :
    up /\ latest = s ~> ~up \/ latest # s \/ app[c].thread = "gone"
                          \/ app[c].view = s

(* The hub lets go of a client that is gone.                               *)
GonePruned ==
  \A c \in Clients : app[c].thread = "gone" ~> c \notin registered

(* A registered client has been sent the latest state, once it is told.    *)
Newest(c) == LET feed == pipe[c] \o queue[c]
             IN  IF feed = <<>> THEN app[c].shared ELSE feed[Len(feed)]
SubscribedCurrent ==
  ~telling => \A c \in registered : link[c] = "on" => Newest(c) = latest
=============================================================================
