---------------------------- MODULE StateFeedProofs ----------------------------
(* The order of the states on their way to the apps, for any number of     *)
(* apps, any pipe and any number of states.                                *)
EXTENDS StateFeed, TLAPS

(* All that is used of the set of states.                                  *)
LEMMA StatesAre ==
  /\ 0 \in States /\ States \subseteq Nat
  /\ \A x \in States : x < MaxState => x + 1 \in States
  /\ Connecting \notin States /\ Unavailable \notin States
  BY SizesAssumption, FeedMarkersAssumption DEF States

-----------------------------------------------------------------------------
(* Sequences of states.                                                    *)

Below(x, s)  == \A i \in 1..Len(s) : x <= s[i]
Above(s, x)  == \A i \in 1..Len(s) : s[i] <= x
Before(s, t) == \A i \in 1..Len(s), j \in 1..Len(t) : s[i] <= t[j]

LEMMA EmptyFits ==
  /\ <<>> \in Seq(States) /\ Sorted(<<>>)
  /\ \A x \in States : Below(x, <<>>) /\ Above(<<>>, x)
  /\ \A t \in Seq(States) : Before(<<>>, t) /\ Before(t, <<>>)
<1>1. <<>> \in Seq(States) /\ Len(<<>>) = 0
  OBVIOUS
<1> QED
  BY <1>1, StatesAre DEF Sorted, Below, Above, Before

(* What appending a state keeps of a sequence.                             *)
LEMMA AppendKeeps ==
  ASSUME NEW s \in Seq(States), NEW e \in States
  PROVE  /\ Append(s, e) \in Seq(States)
         /\ Sorted(s) /\ Above(s, e) => Sorted(Append(s, e))
         /\ \A x \in States :
              /\ Below(x, s) /\ x <= e => Below(x, Append(s, e))
              /\ Above(s, x) /\ e <= x => Above(Append(s, e), x)
         /\ \A t \in Seq(States) :
              /\ Before(t, s) /\ Above(t, e) => Before(t, Append(s, e))
              /\ Before(s, t) /\ Below(e, t) => Before(Append(s, e), t)
<1>1. /\ Append(s, e) \in Seq(States)
      /\ Len(Append(s, e)) = Len(s) + 1
      /\ Len(s) \in Nat
      /\ Append(s, e)[Len(s) + 1] = e
      /\ \A i \in 1..Len(s) : Append(s, e)[i] = s[i] /\ s[i] \in States
  OBVIOUS
<1>2. \A i \in 1..Len(Append(s, e)) : i \in 1..Len(s) \/ i = Len(s) + 1
  BY <1>1
<1>3. Sorted(s) /\ Above(s, e) => Sorted(Append(s, e))
  BY <1>1, <1>2, StatesAre DEF Sorted, Above
<1>4. \A x \in States :
        /\ Below(x, s) /\ x <= e => Below(x, Append(s, e))
        /\ Above(s, x) /\ e <= x => Above(Append(s, e), x)
  BY <1>1, <1>2 DEF Below, Above
<1>5. \A t \in Seq(States) :
        /\ Before(t, s) /\ Above(t, e) => Before(t, Append(s, e))
        /\ Before(s, t) /\ Below(e, t) => Before(Append(s, e), t)
  BY <1>1, <1>2 DEF Before, Below, Above
<1> QED
  BY <1>1, <1>3, <1>4, <1>5

(* What a sequence without its head keeps of it, and what its head is to   *)
(* the rest.                                                               *)
LEMMA TailKeeps ==
  ASSUME NEW s \in Seq(States), s # <<>>
  PROVE  /\ Head(s) \in States /\ Tail(s) \in Seq(States)
         /\ Sorted(s) => Sorted(Tail(s)) /\ Below(Head(s), Tail(s))
         /\ \A x \in States :
              /\ Below(x, s) => x <= Head(s) /\ Below(x, Tail(s))
              /\ Above(s, x) => Head(s) <= x /\ Above(Tail(s), x)
         /\ \A t \in Seq(States) :
              /\ Before(t, s) => Above(t, Head(s)) /\ Before(t, Tail(s))
              /\ Before(s, t) => Below(Head(s), t) /\ Before(Tail(s), t)
<1>1. /\ Tail(s) \in Seq(States) /\ Head(s) = s[1]
      /\ Len(s) \in Nat \ {0} /\ Len(Tail(s)) = Len(s) - 1
      /\ 1 \in 1..Len(s)
      /\ \A i \in 1..Len(s) : s[i] \in States
      /\ \A i \in 1..Len(Tail(s)) : Tail(s)[i] = s[i + 1]
  OBVIOUS
<1>2. \A i \in 1..Len(Tail(s)) : i + 1 \in 1..Len(s)
  BY <1>1
<1>3. Sorted(s) => Sorted(Tail(s)) /\ Below(Head(s), Tail(s))
  BY <1>1, <1>2 DEF Sorted, Below
<1>4. \A x \in States :
        /\ Below(x, s) => x <= Head(s) /\ Below(x, Tail(s))
        /\ Above(s, x) => Head(s) <= x /\ Above(Tail(s), x)
  BY <1>1, <1>2 DEF Below, Above
<1>5. \A t \in Seq(States) :
        /\ Before(t, s) => Above(t, Head(s)) /\ Before(t, Tail(s))
        /\ Before(s, t) => Below(Head(s), t) /\ Before(Tail(s), t)
  BY <1>1, <1>2 DEF Before, Below, Above
<1> QED
  BY <1>1, <1>3, <1>4, <1>5

(* Two sorted sequences one after the other are sorted.                    *)
LEMMA ConcatSorted ==
  ASSUME NEW s \in Seq(States), NEW t \in Seq(States),
         Sorted(s), Sorted(t), Before(s, t)
  PROVE  /\ Sorted(s \o t)
         /\ \A x \in States :
              /\ Below(x, s) /\ Below(x, t) => Below(x, s \o t)
              /\ Above(s, x) /\ Above(t, x) => Above(s \o t, x)
<1>1. /\ Len(s \o t) = Len(s) + Len(t) /\ Len(s) \in Nat /\ Len(t) \in Nat
      /\ \A i \in 1..(Len(s) + Len(t)) :
           (s \o t)[i] = IF i <= Len(s) THEN s[i] ELSE t[i - Len(s)]
  OBVIOUS
<1>2. \A i \in 1..Len(s \o t) :
        \/ i \in 1..Len(s) /\ (s \o t)[i] = s[i]
        \/ /\ i > Len(s) /\ i - Len(s) \in 1..Len(t)
           /\ (s \o t)[i] = t[i - Len(s)]
  BY <1>1
<1>3. Sorted(s \o t)
  <2>1. SUFFICES ASSUME NEW i \in 1..Len(s \o t), NEW j \in 1..Len(s \o t),
                        i <= j
                 PROVE  (s \o t)[i] <= (s \o t)[j]
    BY DEF Sorted
  <2>2. CASE i \in 1..Len(s) /\ j \in 1..Len(s)
    BY <1>1, <1>2, <2>1, <2>2 DEF Sorted
  <2>3. CASE i \in 1..Len(s) /\ j > Len(s)
    BY <1>1, <1>2, <2>1, <2>3 DEF Before
  <2>4. CASE i > Len(s) /\ j > Len(s)
    <3>1. i - Len(s) \in 1..Len(t) /\ j - Len(s) \in 1..Len(t)
          /\ i - Len(s) <= j - Len(s)
      BY <1>1, <2>1, <2>4
    <3>2. (s \o t)[i] = t[i - Len(s)] /\ (s \o t)[j] = t[j - Len(s)]
      BY <1>1, <1>2, <2>1, <2>4
    <3>3. t[i - Len(s)] <= t[j - Len(s)]
      BY <3>1 DEF Sorted
    <3> QED
      BY <3>2, <3>3
  <2> QED
    BY <1>1, <2>1, <2>2, <2>3, <2>4
<1>4. \A x \in States :
        /\ Below(x, s) /\ Below(x, t) => Below(x, s \o t)
        /\ Above(s, x) /\ Above(t, x) => Above(s \o t, x)
  BY <1>1, <1>2 DEF Below, Above
<1> QED
  BY <1>3, <1>4

-----------------------------------------------------------------------------
(* The inductive invariant.                                                *)

(* The accept loop has a client from its connection on.                    *)
ListenerInv == listener.at \in {"accepted", "read"} <=> listener.client # None

(* No thread has anything for a client.                                    *)
Quiet(c) == queue[c] = <<>> /\ c \notin registered /\ c \notin forwarding

(* Whoever waits for the accept loop, connects, or has lost the service,   *)
(* has nothing to get from an earlier connection.                          *)
QuietInv ==
  \A c \in Clients :
    /\ listener.client = c => Quiet(c) /\ pipe[c] = <<>>
    /\ app[c].thread = "connect" \/ link[c] = "ended" =>
         Quiet(c) /\ listener.client # c
    /\ app[c].thread = "connect" => pipe[c] = <<>>

(* x is not newer than anything an app shares.                             *)
Passed(c, x) == app[c].frame <= x /\ (app[c].shared \in States => app[c].shared <= x)

(* What is recorded, shared, in the pipe, in the queue, about to be sent   *)
(* by subscribe, and stored by the hub, follow each other in this order.   *)
Order(c) ==
  /\ Sorted(pipe[c]) /\ Sorted(queue[c]) /\ Before(pipe[c], queue[c])
  /\ Above(pipe[c], latest) /\ Above(queue[c], latest)
  /\ Below(app[c].frame, pipe[c]) /\ Below(app[c].frame, queue[c])
  /\ app[c].shared \in States =>
       /\ app[c].frame <= app[c].shared
       /\ Below(app[c].shared, pipe[c]) /\ Below(app[c].shared, queue[c])
  /\ Passed(c, latest)
  /\ listener.at = "read" /\ listener.client = c =>
       listener.first <= latest /\ Passed(c, listener.first)

OrderInv == \A c \in Clients : Order(c)

Inv == TypeOK /\ ListenerInv /\ QuietInv /\ OrderInv

LEMMA InvInit == Init => Inv
<1> SUFFICES ASSUME Init PROVE Inv
  OBVIOUS
<1>1. TypeOK
  <2>1. queue \in [Clients -> Seq(States)] /\ pipe \in [Clients -> Seq(States)]
    BY EmptyFits DEF Init
  <2>2. link \in [Clients -> Link] /\ listener \in Listener
    BY StatesAre DEF Init, Link, Listener
  <2>3. app \in [Clients -> App]
    <3>1. [thread |-> "connect", shared |-> Connecting, adding |-> FALSE,
           news |-> FALSE, loading |-> FALSE, view |-> Connecting, frame |-> 0]
            \in App
      <4>1. Connecting \in UiState /\ 0 \in States
        BY StatesAre DEF UiState
      <4> QED
        BY <4>1 DEF App
    <3> QED
      BY <3>1 DEF Init
  <2>4. /\ up \in BOOLEAN /\ latest \in States /\ telling \in BOOLEAN
        /\ registered \in SUBSET Clients /\ forwarding \in SUBSET Clients
    BY StatesAre DEF Init
  <2> QED
    BY <2>1, <2>2, <2>3, <2>4 DEF TypeOK
<1>2. ListenerInv /\ QuietInv
  BY FeedMarkersAssumption DEF Init, ListenerInv, QuietInv, Quiet
<1>3. OrderInv
  <2>1. \A c \in Clients :
          /\ pipe[c] = <<>> /\ queue[c] = <<>>
          /\ app[c].frame = 0 /\ app[c].shared = Connecting
    BY DEF Init
  <2>2. latest = 0 /\ listener.at = "create" /\ 0 \in States
    BY StatesAre DEF Init
  <2> QED
    <3>1. SUFFICES ASSUME NEW c \in Clients
                   PROVE  /\ Sorted(pipe[c]) /\ Sorted(queue[c])
                          /\ Before(pipe[c], queue[c])
                          /\ Above(pipe[c], latest) /\ Above(queue[c], latest)
                          /\ Below(app[c].frame, pipe[c])
                          /\ Below(app[c].frame, queue[c])
                          /\ Passed(c, latest)
      BY <2>1, <2>2, StatesAre DEF OrderInv, Order
    <3>2. /\ Sorted(<<>>) /\ Before(<<>>, <<>>)
          /\ Above(<<>>, 0) /\ Below(0, <<>>)
      BY EmptyFits, StatesAre
    <3>3. Passed(c, latest)
      BY <2>1, <2>2, StatesAre DEF Passed
    <3> QED
      BY <2>1, <2>2, <3>2, <3>3, Zenon
<1> QED
  BY <1>1, <1>2, <1>3 DEF Inv

-----------------------------------------------------------------------------
(* Type correctness.                                                       *)

LEMMA TypeStep == TypeOK /\ ListenerInv /\ [Next]_vars => TypeOK'
<1> SUFFICES ASSUME TypeOK, ListenerInv, [Next]_vars PROVE TypeOK'
  OBVIOUS
<1> USE DEF TypeOK
<1>1. CASE Publish \/ Republish \/ Start
  <2>1. latest' \in States /\ up' \in BOOLEAN /\ telling' \in BOOLEAN
    BY <1>1, StatesAre DEF Publish, Republish, Start
  <2> QED
    BY <1>1, <2>1 DEF Publish, Republish, Start
<1>2. CASE Tell
  <2>1. \A c \in Clients : Append(queue[c], latest) \in Seq(States)
    OBVIOUS
  <2> QED
    BY <1>2, <2>1 DEF Tell
<1>3. CASE Listen \/ Read
  BY <1>3 DEF Listen, Read, Listener
<1>4. CASE Register
  <2>1. listener.client \in Clients /\ listener.first \in States
    BY <1>4 DEF Register, ListenerInv, Listener
  <2>2. queue' \in [Clients -> Seq(States)]
    <3>1. Append(queue[listener.client], listener.first) \in Seq(States)
      BY <2>1
    <3> QED
      BY <1>4, <3>1 DEF Register
  <2>3. listener' \in Listener
    BY <1>4 DEF Register, Listener
  <2> QED
    BY <1>4, <2>1, <2>2, <2>3 DEF Register
<1>5. CASE Stop
  <2>1. link' \in [Clients -> Link]
    BY <1>5 DEF Stop, Link
  <2>2. listener' \in Listener
    BY <1>5 DEF Stop, Listener
  <2>3. queue' \in [Clients -> Seq(States)]
    BY <1>5 DEF Stop
  <2>4. pipe' \in [Clients -> Seq(States)]
    <3>1. PICK lost \in SUBSET Clients :
            pipe' = [c \in Clients |-> IF c \in lost THEN <<>> ELSE pipe[c]]
      BY <1>5 DEF Stop
    <3> QED
      BY <3>1, EmptyFits
  <2> QED
    BY <1>5, <2>1, <2>2, <2>3, <2>4 DEF Stop
<1>6. ASSUME NEW c \in Clients, Forward(c) \/ ForwardFails(c)
      PROVE  TypeOK'
  <2>1. queue[c] # <<>> => Head(queue[c]) \in States
                           /\ Tail(queue[c]) \in Seq(States)
    OBVIOUS
  <2>2. queue[c] # <<>> => Append(pipe[c], Head(queue[c])) \in Seq(States)
    BY <2>1
  <2>3. link' \in [Clients -> Link]
    BY <1>6 DEF Forward, ForwardFails, Link
  <2>4. CASE Forward(c)
    BY <2>1, <2>2, <2>3, <2>4 DEF Forward
  <2>5. CASE ForwardFails(c)
    BY <2>3, <2>5, EmptyFits DEF ForwardFails
  <2> QED
    BY <1>6, <2>4, <2>5
<1>7. ASSUME NEW c \in Clients, NEW state \in UiState,
             NEW thread \in {"connect", "reading", "gone"},
             Stored(c, state, thread)
      PROVE  app' \in [Clients -> App]
  <2>1. [app[c] EXCEPT !.shared = state, !.adding = TRUE, !.thread = thread]
          \in App
    BY DEF App
  <2> QED
    BY <1>7, <2>1 DEF Stored
<1>8. ASSUME NEW c \in Clients, Connect(c) \/ ConnectFails(c) \/ Lose(c)
      PROVE  TypeOK'
  <2>1. app' \in [Clients -> App]
    BY <1>7, <1>8 DEF Connect, ConnectFails, Lose, UiState
  <2> QED
    BY <1>8, <2>1 DEF Connect, ConnectFails, Lose, hubVars, Listener, Link
<1>9. ASSUME NEW c \in Clients, Receive(c) PROVE TypeOK'
  <2>1. pipe[c] # <<>> => Head(pipe[c]) \in States
                          /\ Tail(pipe[c]) \in Seq(States)
    OBVIOUS
  <2>2. app' \in [Clients -> App]
    BY <1>7, <1>9, <2>1 DEF Receive, UiState
  <2> QED
    BY <1>9, <2>1, <2>2 DEF Receive, hubVars
<1>10. ASSUME NEW c \in Clients, Add(c) \/ Window(c) \/ Quit(c)
       PROVE  TypeOK'
  <2>1. app' \in [Clients -> App]
    <3>1. app[c] \in App /\ Record(c) \in States
      BY ReadyAssumption DEF App, Record
    <3>2. /\ [app[c] EXCEPT !.adding = FALSE, !.news = TRUE] \in App
          /\ [app[c] EXCEPT !.news = FALSE, !.loading = TRUE] \in App
          /\ [app[c] EXCEPT !.thread = "gone", !.adding = FALSE,
                            !.loading = FALSE] \in App
      BY <3>1 DEF App
    <3>3. [app[c] EXCEPT !.loading = FALSE, !.view = app[c].shared,
                         !.frame = Record(c)] \in App
      BY <3>1 DEF App
    <3> QED
      BY <1>10, <3>2, <3>3 DEF Add, Window, Load, Show, Quit
  <2>2. link' \in [Clients -> Link]
    <3>1. "broken" \in Link /\ "off" \in Link
      BY DEF Link
    <3> QED
      BY <1>10, <3>1 DEF Add, Window, Load, Show, Quit
  <2>3. pipe' \in [Clients -> Seq(States)]
    BY <1>10, EmptyFits DEF Add, Window, Load, Show, Quit
  <2> QED
    BY <1>10, <2>1, <2>2, <2>3 DEF Add, Window, Load, Show, Quit, hubVars
<1>11. CASE UNCHANGED vars
  BY <1>11 DEF vars, hubVars
<1> QED
  BY <1>1, <1>2, <1>3, <1>4, <1>5, <1>6, <1>8, <1>9, <1>10, <1>11
     DEF Next, Hub, Accept, Client

-----------------------------------------------------------------------------
(* The accept loop and the clients without a connection.                   *)

(* The steps that leave alone what the accept loop does, the connections   *)
(* and the event threads' part in them.                                    *)
Aside == \/ Publish \/ Republish \/ Start
         \/ \E c \in Clients : ConnectFails(c) \/ Add(c) \/ Window(c)
         \/ UNCHANGED vars

LEMMA ListenerStep == TypeOK /\ ListenerInv /\ [Next]_vars => ListenerInv'
<1> SUFFICES ASSUME TypeOK, ListenerInv, [Next]_vars PROVE ListenerInv'
  OBVIOUS
<1>1. CASE UNCHANGED listener
  BY <1>1 DEF ListenerInv
<1>2. CASE Listen \/ Read \/ Register \/ Stop
  BY <1>2 DEF Listen, Read, Register, Stop, ListenerInv, TypeOK, Listener
<1>3. ASSUME NEW c \in Clients, Connect(c) PROVE ListenerInv'
  BY <1>3, FeedMarkersAssumption DEF Connect, ListenerInv, TypeOK, Listener
<1> QED
  BY <1>1, <1>2, <1>3
     DEF Next, Hub, Accept, Client, Window, Publish, Tell, Republish, Start,
         Forward, ForwardFails, ConnectFails, Receive, Lose, Add, Load, Show,
         Quit, vars, hubVars

(* An app's step as its event thread sees it.                              *)
LEMMA AsideKeeps ==
  ASSUME TypeOK, Aside
  PROVE  /\ UNCHANGED <<listener, registered, forwarding, queue, link, pipe>>
         /\ \A c \in Clients : app'[c].thread = app[c].thread
<1>1. CASE Publish \/ Republish \/ Start \/ UNCHANGED vars
  BY <1>1 DEF Publish, Republish, Start, vars, hubVars
<1>2. ASSUME NEW c \in Clients, ConnectFails(c) \/ Add(c) \/ Window(c)
      PROVE  /\ UNCHANGED <<hubVars, link, pipe>>
             /\ \E a : app' = [app EXCEPT ![c] = a]
                       /\ a.thread = app[c].thread
  <2>1. app[c] \in App
    BY DEF TypeOK
  <2>2. /\ [app[c] EXCEPT !.shared = Unavailable, !.adding = TRUE,
                          !.thread = "connect"].thread = "connect"
        /\ [app[c] EXCEPT !.adding = FALSE, !.news = TRUE].thread
              = app[c].thread
        /\ [app[c] EXCEPT !.news = FALSE, !.loading = TRUE].thread
              = app[c].thread
        /\ [app[c] EXCEPT !.loading = FALSE, !.view = app[c].shared,
                          !.frame = Record(c)].thread = app[c].thread
    BY <2>1 DEF App
  <2> QED
    BY <1>2, <2>2 DEF ConnectFails, Stored, Add, Window, Load, Show
<1> QED
  BY <1>1, <1>2 DEF Aside, TypeOK, hubVars

LEMMA QuietStep ==
  TypeOK /\ ListenerInv /\ QuietInv /\ [Next]_vars => QuietInv'
<1> SUFFICES ASSUME TypeOK, ListenerInv, QuietInv, [Next]_vars
             PROVE  QuietInv'
  OBVIOUS
<1>1. CASE Aside
  BY <1>1, AsideKeeps DEF QuietInv, Quiet
<1>2. CASE Tell
  BY <1>2 DEF Tell, QuietInv, Quiet, TypeOK
<1>3. CASE Listen \/ Read
  BY <1>3, FeedMarkersAssumption
     DEF Listen, Read, QuietInv, Quiet, TypeOK, Listener
<1>4. CASE Register
  BY <1>4, FeedMarkersAssumption
     DEF Register, QuietInv, Quiet, TypeOK, Listener, ListenerInv
<1>5. CASE Stop
  <2>1. /\ listener'.client = None /\ app' = app
        /\ \A c \in Clients : queue'[c] = <<>> /\ c \notin registered'
                              /\ c \notin forwarding'
                              /\ pipe'[c] \in {<<>>, pipe[c]}
    BY <1>5 DEF Stop, TypeOK, Listener
  <2> QED
    BY <2>1, FeedMarkersAssumption DEF QuietInv, Quiet
<1>6. ASSUME NEW c \in Clients, Forward(c) PROVE QuietInv'
  BY <1>6 DEF Forward, QuietInv, Quiet, TypeOK
<1>7. ASSUME NEW c \in Clients, ForwardFails(c) PROVE QuietInv'
  BY <1>7 DEF ForwardFails, QuietInv, Quiet, TypeOK
<1>8. ASSUME NEW c \in Clients, NEW a, app' = [app EXCEPT ![c] = a]
      PROVE  /\ app'[c] = a
             /\ \A d \in Clients \ {c} : app'[d] = app[d]
  BY <1>8 DEF TypeOK
<1>9. ASSUME NEW c \in Clients, NEW state, NEW thread,
             Stored(c, state, thread)
      PROVE  /\ app'[c].thread = thread
             /\ \A d \in Clients \ {c} : app'[d] = app[d]
  <2>1. [app[c] EXCEPT !.shared = state, !.adding = TRUE,
                       !.thread = thread].thread = thread
    BY DEF TypeOK, App
  <2> QED
    BY <1>8, <1>9, <2>1 DEF Stored
<1>10. ASSUME NEW c \in Clients, Connect(c) PROVE QuietInv'
  <2>1. /\ listener' = [listener EXCEPT !.at = "accepted", !.client = c]
        /\ link' = [link EXCEPT ![c] = "on"] /\ app'[c].thread = "reading"
        /\ \A d \in Clients \ {c} : app'[d] = app[d]
        /\ UNCHANGED <<registered, forwarding, queue, pipe>>
        /\ app[c].thread = "connect" /\ listener.at = "listen"
    BY <1>9, <1>10 DEF Connect
  <2> QED
    BY <2>1 DEF QuietInv, Quiet, TypeOK, Listener, ListenerInv
<1>11. ASSUME NEW c \in Clients, Receive(c) PROVE QuietInv'
  <2>1. /\ app'[c].thread = "reading" /\ app[c].thread = "reading"
        /\ \A d \in Clients \ {c} : app'[d] = app[d]
        /\ pipe[c] # <<>> /\ pipe' = [pipe EXCEPT ![c] = Tail(@)]
        /\ UNCHANGED <<listener, registered, forwarding, queue, link>>
    BY <1>9, <1>11 DEF Receive, hubVars
  <2> QED
    BY <2>1 DEF QuietInv, Quiet, TypeOK
<1>12. ASSUME NEW c \in Clients, Lose(c) PROVE QuietInv'
  <2>1. /\ app'[c].thread = "connect" /\ pipe[c] = <<>> /\ link[c] = "ended"
        /\ \A d \in Clients \ {c} : app'[d] = app[d]
        /\ link' = [link EXCEPT ![c] = "off"]
        /\ UNCHANGED <<listener, registered, forwarding, queue, pipe>>
    BY <1>9, <1>12 DEF Lose, hubVars
  <2> QED
    BY <2>1 DEF QuietInv, Quiet, TypeOK
<1>13. ASSUME NEW c \in Clients, Quit(c) PROVE QuietInv'
  <2>1. app'[c].thread = "gone" /\ \A d \in Clients \ {c} : app'[d] = app[d]
    <3>1. [app[c] EXCEPT !.thread = "gone", !.adding = FALSE,
                         !.loading = FALSE].thread = "gone"
      BY DEF TypeOK, App
    <3> QED
      BY <1>8, <1>13, <3>1 DEF Quit
  <2>2. /\ link'[c] # "ended" /\ \A d \in Clients \ {c} : link'[d] = link[d]
        /\ pipe' = [pipe EXCEPT ![c] = <<>>]
        /\ UNCHANGED <<listener, registered, forwarding, queue>>
    BY <1>13 DEF Quit, TypeOK, hubVars
  <2> QED
    BY <2>1, <2>2 DEF QuietInv, Quiet, TypeOK
<1> QED
  BY <1>1, <1>2, <1>3, <1>4, <1>5, <1>6, <1>7, <1>10, <1>11, <1>12, <1>13
     DEF Next, Hub, Accept, Client, Aside

-----------------------------------------------------------------------------
(* The order of what is on its way.                                        *)

(* Emptying the pipe or the queue, a newer state in the hub, and sharing   *)
(* that there is no service keep the order.                                *)
LEMMA OrderKept ==
  ASSUME NEW c \in Clients, TypeOK, TypeOK', Order(c),
         pipe'[c] \in {pipe[c], <<>>}, queue'[c] \in {queue[c], <<>>},
         latest <= latest', app'[c].frame = app[c].frame,
         app'[c].shared = app[c].shared \/ app'[c].shared \notin States,
         listener'.at = "read" /\ listener'.client = c =>
           \/ listener.at = "read" /\ listener' = listener
           \/ listener'.first = latest /\ latest' = latest
  PROVE  Order(c)'
<1>1. /\ latest \in Nat /\ latest' \in Nat /\ latest \in States
      /\ latest' \in States /\ app[c].frame \in States
      /\ listener.first \in Nat /\ listener'.first \in Nat
      /\ pipe[c] \in Seq(States) /\ queue[c] \in Seq(States)
  BY StatesAre DEF TypeOK, App, Listener
<1>2. \A s \in Seq(States) : Above(s, latest) => Above(s, latest')
  <2>1. SUFFICES ASSUME NEW s \in Seq(States), Above(s, latest)
                 PROVE  Above(s, latest')
    OBVIOUS
  <2>2. \A i \in 1..Len(s) : s[i] \in Nat
    <3>1. \A i \in 1..Len(s) : s[i] \in States
      OBVIOUS
    <3> QED
      BY <3>1, StatesAre
  <2> QED
    BY <1>1, <2>1, <2>2 DEF Above
<1>3. Passed(c, latest)' /\ Passed(c, latest)
  <2>1. Passed(c, latest)
    BY DEF Order
  <2>2. app[c].frame <= latest'
    <3>1. app[c].frame \in Nat /\ app[c].frame <= latest
      BY <1>1, <2>1, StatesAre DEF Passed
    <3> QED
      BY <1>1, <3>1
  <2>3. ASSUME app[c].shared \in States PROVE app[c].shared <= latest'
    <3>1. app[c].shared \in Nat /\ app[c].shared <= latest
      BY <2>1, <2>3, StatesAre DEF Passed
    <3> QED
      BY <1>1, <3>1
  <2> QED
    BY <2>1, <2>2, <2>3 DEF Passed
<1>4. /\ Sorted(pipe'[c]) /\ Sorted(queue'[c]) /\ Before(pipe'[c], queue'[c])
      /\ Above(pipe'[c], latest') /\ Above(queue'[c], latest')
      /\ Below(app[c].frame, pipe'[c]) /\ Below(app[c].frame, queue'[c])
  BY <1>1, <1>2, EmptyFits DEF Order
<1>5. app'[c].shared \in States =>
        /\ app[c].frame <= app'[c].shared
        /\ Below(app'[c].shared, pipe'[c]) /\ Below(app'[c].shared, queue'[c])
  BY <1>1, EmptyFits DEF Order
<1>6. listener'.at = "read" /\ listener'.client = c =>
        listener'.first <= latest' /\ Passed(c, listener.first)'
  <2>1. SUFFICES ASSUME listener'.at = "read" /\ listener'.client = c
                 PROVE  listener'.first <= latest' /\ Passed(c, listener.first)'
    OBVIOUS
  <2>2. CASE listener.at = "read" /\ listener' = listener
    <3>1. listener.first <= latest /\ Passed(c, listener.first)
      BY <2>1, <2>2 DEF Order
    <3> QED
      BY <1>1, <2>2, <3>1 DEF Passed
  <2>3. CASE listener'.first = latest /\ latest' = latest
    BY <1>1, <1>3, <2>3 DEF Passed
  <2> QED
    BY <2>1, <2>2, <2>3
<1> QED
  BY <1>3, <1>4, <1>5, <1>6 DEF Order

(* What an app's step leaves of its record.                                *)
LEMMA AppStep ==
  ASSUME TypeOK, NEW c \in Clients, NEW a, app' = [app EXCEPT ![c] = a]
  PROVE  app'[c] = a /\ \A d \in Clients \ {c} : app'[d] = app[d]
  BY DEF TypeOK

LEMMA StoredStep ==
  ASSUME TypeOK, NEW c \in Clients, NEW state, NEW thread,
         Stored(c, state, thread)
  PROVE  /\ app'[c].shared = state /\ app'[c].thread = thread
         /\ app'[c].frame = app[c].frame
         /\ \A d \in Clients \ {c} : app'[d] = app[d]
<1>1. DEFINE a == [app[c] EXCEPT !.shared = state, !.adding = TRUE,
                                 !.thread = thread]
<1>2. a.shared = state /\ a.thread = thread /\ a.frame = app[c].frame
  BY DEF TypeOK, App
<1> QED
  BY <1>2, AppStep DEF Stored

LEMMA SharedKept ==
  ASSUME TypeOK, NEW c \in Clients, Add(c) \/ Load(c) \/ Quit(c)
  PROVE  \A d \in Clients : /\ app'[d].frame = app[d].frame
                            /\ app'[d].shared = app[d].shared
<1>1. PICK a : /\ app' = [app EXCEPT ![c] = a]
               /\ a.frame = app[c].frame /\ a.shared = app[c].shared
  <2>1. app[c] \in App
    BY DEF TypeOK
  <2> DEFINE Same(a) == a.frame = app[c].frame /\ a.shared = app[c].shared
  <2>2. /\ Same([app[c] EXCEPT !.adding = FALSE, !.news = TRUE])
        /\ Same([app[c] EXCEPT !.news = FALSE, !.loading = TRUE])
        /\ Same([app[c] EXCEPT !.thread = "gone", !.adding = FALSE,
                               !.loading = FALSE])
    BY <2>1 DEF App
  <2> QED
    BY <2>2 DEF Add, Load, Quit
<1> QED
  BY <1>1, AppStep

LEMMA OrderStep ==
  Inv /\ TypeOK' /\ [Next]_vars => OrderInv'
<1> SUFFICES ASSUME Inv, TypeOK', [Next]_vars PROVE OrderInv'
  OBVIOUS
<1>0. /\ TypeOK /\ ListenerInv /\ QuietInv /\ OrderInv
      /\ latest \in Nat /\ latest' \in Nat
  BY StatesAre DEF Inv, TypeOK
<1>1. CASE Publish \/ Republish \/ Start \/ Listen \/ Read \/ UNCHANGED vars
  <2>1. /\ UNCHANGED <<app, queue, pipe>> /\ latest <= latest'
        /\ \/ UNCHANGED listener
           \/ listener'.at # "read"
           \/ listener'.first = latest /\ latest' = latest
    <3>1. CASE Publish \/ Start
      BY <1>0, <3>1 DEF Publish, Start
    <3>2. CASE Republish \/ UNCHANGED vars
      BY <1>0, <3>2 DEF Republish, vars, hubVars
    <3>3. CASE Listen
      BY <1>0, <3>3 DEF Listen, TypeOK, Listener
    <3>4. CASE Read
      BY <1>0, <3>4 DEF Read, TypeOK, Listener
    <3> QED
      BY <1>1, <3>1, <3>2, <3>3, <3>4
  <2> QED
    BY <1>0, <2>1, OrderKept DEF OrderInv
<1>2. CASE Stop
  <2>1. /\ UNCHANGED <<app, latest>> /\ listener'.at = "create"
        /\ \A c \in Clients : /\ queue'[c] = <<>>
                              /\ pipe'[c] \in {pipe[c], <<>>}
    BY <1>0, <1>2 DEF Stop, TypeOK, Listener
  <2> QED
    BY <1>0, <2>1, OrderKept DEF OrderInv
<1>3. ASSUME NEW c \in Clients, ForwardFails(c) PROVE OrderInv'
  <2>1. /\ UNCHANGED <<app, pipe, latest, listener>>
        /\ \A d \in Clients : queue'[d] \in {queue[d], <<>>}
    BY <1>0, <1>3 DEF ForwardFails, TypeOK
  <2> QED
    BY <1>0, <2>1, OrderKept DEF OrderInv
<1>4. ASSUME NEW c \in Clients, ConnectFails(c) \/ Connect(c) \/ Lose(c)
      PROVE  OrderInv'
  <2>1. /\ UNCHANGED <<pipe, queue, latest>>
        /\ listener' = listener \/ listener'.at = "accepted"
        /\ \E s \in {Connecting, Unavailable}, t \in {"connect", "reading"} :
             Stored(c, s, t)
    BY <1>0, <1>4 DEF ConnectFails, Connect, Lose, hubVars, TypeOK, Listener
  <2>2. \A d \in Clients :
          /\ app'[d].frame = app[d].frame
          /\ app'[d].shared = app[d].shared \/ app'[d].shared \notin States
    BY <1>0, <2>1, StoredStep, StatesAre
  <2> QED
    BY <1>0, <2>1, <2>2, OrderKept DEF OrderInv
<1>5. ASSUME NEW c \in Clients, Add(c) \/ Load(c) \/ Quit(c) PROVE OrderInv'
  <2>1. /\ UNCHANGED <<queue, latest, listener>>
        /\ \A d \in Clients : pipe'[d] \in {pipe[d], <<>>}
    BY <1>0, <1>5 DEF Add, Load, Quit, hubVars, TypeOK
  <2>3. \A d \in Clients : /\ app'[d].frame = app[d].frame
                           /\ app'[d].shared = app[d].shared
    BY <1>0, <1>5, SharedKept
  <2> QED
    BY <1>0, <2>1, <2>3, OrderKept DEF OrderInv
(* The steps that hand a state on.                                         *)
<1>6. ASSUME NEW c \in Clients, UNCHANGED <<latest, listener>>,
             app'[c].frame = app[c].frame, app'[c].shared = app[c].shared,
             pipe'[c] = pipe[c], queue'[c] = Append(queue[c], latest)
      PROVE  Order(c)'
  <2>1. /\ pipe[c] \in Seq(States) /\ queue[c] \in Seq(States)
        /\ latest \in States /\ app[c].frame \in States
    BY <1>0 DEF TypeOK, App
  <2>2. /\ Order(c) /\ Passed(c, latest) /\ Above(pipe[c], latest)
        /\ Above(queue[c], latest) /\ app[c].frame <= latest
        /\ app[c].shared \in States => app[c].shared <= latest
    BY <1>0 DEF OrderInv, Order, Passed
  <2>3. latest <= latest
    BY <1>0
  <2>4. /\ Sorted(queue'[c]) /\ Before(pipe[c], queue'[c])
        /\ Above(queue'[c], latest) /\ Below(app[c].frame, queue'[c])
        /\ app[c].shared \in States => Below(app[c].shared, queue'[c])
    BY <1>6, <2>1, <2>2, <2>3, AppendKeeps DEF Order
  <2> QED
    BY <1>6, <2>2, <2>4 DEF Order, Passed
<1>7. CASE Tell
  <2>1. /\ UNCHANGED <<app, pipe, latest, listener>>
        /\ \A c \in Clients : queue'[c] \in {queue[c], Append(queue[c], latest)}
    BY <1>0, <1>7 DEF Tell, TypeOK
  <2>2. ASSUME NEW c \in Clients PROVE Order(c)'
    <3>1. CASE queue'[c] = queue[c]
      BY <1>0, <2>1, <3>1, OrderKept DEF OrderInv
    <3>2. CASE queue'[c] = Append(queue[c], latest)
      BY <1>6, <2>1, <3>2
    <3> QED
      BY <2>1, <3>1, <3>2
  <2> QED
    BY <2>2 DEF OrderInv
<1>8. CASE Register
  <2>1. PICK c \in Clients :
          /\ c = listener.client /\ queue[c] = <<>> /\ pipe[c] = <<>>
          /\ listener.first \in States
    BY <1>0, <1>8 DEF Register, ListenerInv, QuietInv, Quiet, TypeOK, Listener
  <2>2. /\ UNCHANGED <<app, pipe, latest>> /\ listener'.at = "create"
        /\ queue'[c] = Append(queue[c], listener.first)
        /\ \A d \in Clients \ {c} : queue'[d] = queue[d]
    BY <1>0, <1>8, <2>1 DEF Register, TypeOK, Listener
  <2>3. ASSUME NEW d \in Clients, d # c PROVE Order(d)'
    BY <1>0, <2>2, <2>3, OrderKept DEF OrderInv
  <2>4. Order(c)'
    <3>1. listener.first <= latest /\ Passed(c, listener.first) /\ Order(c)
      BY <1>0, <1>8, <2>1 DEF Register, OrderInv, Order
    <3>2. /\ Sorted(queue'[c]) /\ Above(queue'[c], latest)
          /\ Below(app[c].frame, queue'[c]) /\ Before(pipe[c], queue'[c])
          /\ app[c].shared \in States => Below(app[c].shared, queue'[c])
      <4>1. /\ queue[c] \in Seq(States) /\ pipe[c] \in Seq(States)
            /\ app[c].frame \in States /\ latest \in States
        BY <1>0 DEF TypeOK, App
      <4>2. Above(queue[c], listener.first) /\ Above(pipe[c], listener.first)
        BY <2>1, EmptyFits
      <4>3. /\ app[c].frame <= listener.first /\ listener.first <= latest
            /\ app[c].shared \in States => app[c].shared <= listener.first
            /\ Sorted(queue[c]) /\ Above(queue[c], latest)
            /\ Below(app[c].frame, queue[c]) /\ Before(pipe[c], queue[c])
            /\ app[c].shared \in States => Below(app[c].shared, queue[c])
        BY <3>1 DEF Order, Passed
      <4>4. Sorted(Append(queue[c], listener.first))
            /\ Above(Append(queue[c], listener.first), latest)
        BY <2>1, <4>1, <4>2, <4>3, AppendKeeps
      <4>5. /\ Below(app[c].frame, Append(queue[c], listener.first))
            /\ app[c].shared \in States =>
                 Below(app[c].shared, Append(queue[c], listener.first))
        BY <2>1, <4>1, <4>3, AppendKeeps
      <4>6. Before(pipe[c], Append(queue[c], listener.first))
        BY <2>1, <4>1, <4>2, <4>3, AppendKeeps
      <4> QED
        BY <2>2, <4>4, <4>5, <4>6
    <3> QED
      BY <2>2, <3>1, <3>2 DEF Order, Passed
  <2> QED
    BY <2>3, <2>4 DEF OrderInv
<1>9. ASSUME NEW c \in Clients, Forward(c) PROVE OrderInv'
  <2>1. /\ UNCHANGED <<app, latest, listener>> /\ queue[c] # <<>>
        /\ queue'[c] = Tail(queue[c])
        /\ pipe'[c] = Append(pipe[c], Head(queue[c]))
        /\ \A d \in Clients \ {c} : queue'[d] = queue[d] /\ pipe'[d] = pipe[d]
    BY <1>0, <1>9 DEF Forward, TypeOK
  <2>2. ASSUME NEW d \in Clients, d # c PROVE Order(d)'
    BY <1>0, <2>1, <2>2, OrderKept DEF OrderInv
  <2>3. Order(c)'
    <3>1. /\ pipe[c] \in Seq(States) /\ queue[c] \in Seq(States)
          /\ latest \in States /\ app[c].frame \in States /\ Order(c)
      BY <1>0 DEF TypeOK, App, OrderInv
    <3> DEFINE h == Head(queue[c])
               t == Tail(queue[c])
    <3>2. /\ h \in States /\ t \in Seq(States)
          /\ Sorted(t) /\ Below(h, t) /\ Above(t, latest) /\ h <= latest
          /\ app[c].frame <= h /\ Below(app[c].frame, t)
          /\ app[c].shared \in States => /\ app[c].shared <= h
                                        /\ Below(app[c].shared, t)
          /\ Above(pipe[c], h) /\ Before(pipe[c], t)
      BY <2>1, <3>1, TailKeeps DEF Order
    <3>3. /\ Sorted(pipe'[c]) /\ Before(pipe'[c], t) /\ Above(pipe'[c], latest)
          /\ Below(app[c].frame, pipe'[c])
          /\ app[c].shared \in States => Below(app[c].shared, pipe'[c])
      BY <2>1, <3>1, <3>2, AppendKeeps DEF Order
    <3> QED
      BY <2>1, <3>1, <3>2, <3>3 DEF Order, Passed
  <2> QED
    BY <2>2, <2>3 DEF OrderInv
<1>10. ASSUME NEW c \in Clients, Receive(c) PROVE OrderInv'
  <2>1. /\ UNCHANGED <<queue, latest, listener>> /\ pipe[c] # <<>>
        /\ pipe'[c] = Tail(pipe[c])
        /\ Stored(c, Head(pipe[c]), "reading")
        /\ \A d \in Clients \ {c} : pipe'[d] = pipe[d]
    BY <1>0, <1>10 DEF Receive, hubVars, TypeOK
  <2>2. /\ app'[c].shared = Head(pipe[c]) /\ app'[c].frame = app[c].frame
        /\ \A d \in Clients \ {c} : app'[d] = app[d]
    BY <1>0, <2>1, StoredStep
  <2>3. ASSUME NEW d \in Clients, d # c PROVE Order(d)'
    BY <1>0, <2>1, <2>2, <2>3, OrderKept DEF OrderInv
  <2>4. Order(c)'
    <3>1. /\ pipe[c] \in Seq(States) /\ queue[c] \in Seq(States)
          /\ latest \in States /\ app[c].frame \in States /\ Order(c)
          /\ listener.client # c
      BY <1>0, <2>1 DEF TypeOK, App, OrderInv, QuietInv
    <3> DEFINE h == Head(pipe[c])
               t == Tail(pipe[c])
    <3>2. /\ h \in States /\ t \in Seq(States)
          /\ Sorted(t) /\ Below(h, t) /\ Above(t, latest) /\ h <= latest
          /\ app[c].frame <= h /\ Below(app[c].frame, t)
          /\ Below(h, queue[c]) /\ Before(t, queue[c])
      BY <2>1, <3>1, TailKeeps DEF Order
    <3> QED
      BY <2>1, <2>2, <3>1, <3>2 DEF Order, Passed
  <2> QED
    BY <2>3, <2>4 DEF OrderInv
<1>11. ASSUME NEW c \in Clients, Show(c) PROVE OrderInv'
  <2>1. /\ UNCHANGED <<queue, pipe, latest, listener>>
        /\ app'[c].shared = app[c].shared /\ app'[c].frame = Record(c)
        /\ \A d \in Clients \ {c} : app'[d] = app[d]
    <3>1. app[c] \in App
      BY <1>0 DEF TypeOK
    <3> DEFINE a == [app[c] EXCEPT !.loading = FALSE, !.view = app[c].shared,
                                   !.frame = Record(c)]
    <3>2. a.shared = app[c].shared /\ a.frame = Record(c)
      BY <3>1 DEF App
    <3>3. app' = [app EXCEPT ![c] = a] /\ UNCHANGED <<hubVars, link, pipe>>
      BY <1>11 DEF Show
    <3> HIDE DEF a
    <3> QED
      BY <1>0, <3>2, <3>3, AppStep DEF hubVars
  <2>2. ASSUME NEW d \in Clients, d # c PROVE Order(d)'
    BY <1>0, <2>1, <2>2, OrderKept DEF OrderInv
  <2>3. Order(c)'
    <3>1. CASE Record(c) = app[c].frame
      BY <1>0, <2>1, <3>1, OrderKept DEF OrderInv
    <3>2. CASE app[c].shared \in States /\ Record(c) = app[c].shared
      <4>1. Order(c) /\ app[c].shared \in Nat
        BY <1>0, <3>2, StatesAre DEF OrderInv
      <4> QED
        BY <2>1, <3>2, <4>1 DEF Order, Passed
    <3> QED
      BY <3>1, <3>2, ReadyAssumption DEF Record
  <2> QED
    BY <2>2, <2>3 DEF OrderInv
<1> QED
  BY <1>1, <1>2, <1>3, <1>4, <1>5, <1>7, <1>8, <1>9, <1>10, <1>11
     DEF Next, Hub, Accept, Client, Window

-----------------------------------------------------------------------------
(* The theorems.                                                           *)

LEMMA InvStep == Inv /\ [Next]_vars => Inv'
  BY TypeStep, ListenerStep, QuietStep, OrderStep DEF Inv

LEMMA FeedInvariant == Spec => []Inv
  BY InvInit, InvStep, PTL DEF Spec

(* The states on their way to an app are in the order of their publication, *)
(* none older than what the app has recorded, whatever Hub::publish,        *)
(* Hub::subscribe, the forwarding threads and the ends of the service and   *)
(* of apps do to each other: for any number of apps.                        *)
THEOREM FeedOrdered == Spec => []FeedInOrder
<1>1. Inv => FeedInOrder
  <2>1. SUFFICES ASSUME Inv, NEW c \in Clients
                 PROVE  LET feed == pipe[c] \o queue[c]
                        IN  /\ Sorted(feed)
                            /\ \A i \in 1..Len(feed) : /\ app[c].frame <= feed[i]
                                                       /\ feed[i] <= latest
    BY DEF FeedInOrder
  <2>2. /\ pipe[c] \in Seq(States) /\ queue[c] \in Seq(States)
        /\ latest \in States /\ app[c].frame \in States /\ Order(c)
    BY <2>1 DEF Inv, TypeOK, App, OrderInv
  <2>3. /\ Sorted(pipe[c] \o queue[c])
        /\ Below(app[c].frame, pipe[c] \o queue[c])
        /\ Above(pipe[c] \o queue[c], latest)
    BY <2>2, ConcatSorted DEF Order
  <2> QED
    BY <2>3 DEF Below, Above
<1> QED
  BY <1>1, FeedInvariant, PTL

(* record_sensor_frame never records a state older than the last one it    *)
(* recorded, across any number of connections and services.                *)
THEOREM FramesOrdered == Spec => FramesInOrder
<1>1. Inv /\ [Next]_vars
        => [\A c \in Clients : app[c].frame <= app'[c].frame]_vars
  <2>1. SUFFICES ASSUME Inv, Next, NEW d \in Clients
                 PROVE  app[d].frame <= app'[d].frame
    OBVIOUS
  <2>2. /\ TypeOK /\ Order(d) /\ app[d].frame \in Nat
    BY <2>1, StatesAre DEF Inv, OrderInv, TypeOK, App
  <2>3. CASE app' = app
    BY <2>2, <2>3
  <2>4. ASSUME NEW c \in Clients, NEW s, NEW t, Stored(c, s, t)
        PROVE  app[d].frame <= app'[d].frame
    BY <2>2, <2>4, StoredStep
  <2>5. ASSUME NEW c \in Clients, Add(c) \/ Load(c) \/ Quit(c)
        PROVE  app[d].frame <= app'[d].frame
    BY <2>2, <2>5, SharedKept
  <2>6. ASSUME NEW c \in Clients, Show(c)
        PROVE  app[d].frame <= app'[d].frame
    <3>1. app'[d].frame = IF d = c THEN Record(c) ELSE app[d].frame
      BY <2>2, <2>6 DEF Show, TypeOK, App
    <3> QED
      BY <2>2, <3>1, ReadyAssumption DEF Record, Order
  <2> QED
    BY <2>1, <2>3, <2>4, <2>5, <2>6
       DEF Next, Hub, Accept, Client, Window, Publish, Tell, Republish, Start,
           Stop, Listen, Read, Register, Forward, ForwardFails, ConnectFails,
           Connect, Receive, Lose
<1>2. FramesInOrder <=> [][\A c \in Clients : app[c].frame <= app'[c].frame]_vars
  BY DEF FramesInOrder
<1> QED
  BY <1>1, <1>2, FeedInvariant, PTL DEF Spec

(* What the hub, the threads and the apps hold is of its type.             *)
THEOREM FeedTyped == Spec => []TypeOK
<1>1. Inv => TypeOK
  BY DEF Inv
<1> QED
  BY <1>1, FeedInvariant, PTL

(* A window with no news shows what its event thread shares.               *)
Current(a) == \/ a.news \/ a.adding \/ a.loading \/ a.thread = "gone"
              \/ a.view = a.shared

(* Every step of an app leaves a reason to look again, or nothing to see.  *)
LEMMA CurrentStep ==
  ASSUME TypeOK, NothingMissed, Next, NEW d \in Clients
  PROVE  Current(app'[d])
<1>1. app[d] \in App /\ Current(app[d])
  BY DEF TypeOK, NothingMissed, Current
<1>2. CASE app' = app
  BY <1>1, <1>2
<1>3. ASSUME NEW c \in Clients, NEW s, NEW t, Stored(c, s, t)
      PROVE  Current(app'[d])
  <2>1. [app[c] EXCEPT !.shared = s, !.adding = TRUE, !.thread = t].adding
    BY DEF TypeOK, App
  <2> QED
    BY <1>1, <1>3, <2>1, AppStep DEF Stored, Current
<1>4. ASSUME NEW c \in Clients, Add(c) PROVE Current(app'[d])
  <2>1. [app[c] EXCEPT !.adding = FALSE, !.news = TRUE].news
    BY DEF TypeOK, App
  <2> QED
    BY <1>1, <1>4, <2>1, AppStep DEF Add, Current
<1>5. ASSUME NEW c \in Clients, Load(c) PROVE Current(app'[d])
  <2>1. [app[c] EXCEPT !.news = FALSE, !.loading = TRUE].loading
    BY DEF TypeOK, App
  <2> QED
    BY <1>1, <1>5, <2>1, AppStep DEF Load, Current
<1>6. ASSUME NEW c \in Clients, Show(c) PROVE Current(app'[d])
  <2> DEFINE a == [app[c] EXCEPT !.loading = FALSE, !.view = app[c].shared,
                                 !.frame = Record(c)]
  <2>1. a.view = a.shared
    BY DEF TypeOK, App
  <2>2. app' = [app EXCEPT ![c] = a]
    BY <1>6 DEF Show
  <2> HIDE DEF a
  <2> QED
    BY <1>1, <2>1, <2>2, AppStep DEF Current
<1>7. ASSUME NEW c \in Clients, Quit(c) PROVE Current(app'[d])
  <2>1. [app[c] EXCEPT !.thread = "gone", !.adding = FALSE,
                       !.loading = FALSE].thread = "gone"
    BY DEF TypeOK, App
  <2> QED
    BY <1>1, <1>7, <2>1, AppStep DEF Quit, Current
<1> QED
  BY <1>2, <1>3, <1>4, <1>5, <1>6, <1>7
     DEF Next, Hub, Accept, Client, Window, Publish, Tell, Republish, Start,
         Stop, Listen, Read, Register, Forward, ForwardFails, ConnectFails,
         Connect, Receive, Lose

(* No order of the event thread's two steps (state, then number) and the   *)
(* window's two (number, then state) loses a state: the window shows what  *)
(* is shared or will look again (Shared::publish, refresh).                *)
THEOREM NothingLost == Spec => []NothingMissed
<1>1. Init => NothingMissed
  <2>1. Init => \A c \in Clients : app[c].view = app[c].shared
    <3> DEFINE a0 == [thread |-> "connect", shared |-> Connecting, adding |-> FALSE,
                      news |-> FALSE, loading |-> FALSE, view |-> Connecting, frame |-> 0]
    <3>1. a0.view = a0.shared
      OBVIOUS
    <3>2. Init => \A c \in Clients : app[c] = a0
      BY DEF Init
    <3> QED
      BY <3>1, <3>2
  <2> QED
    BY <2>1 DEF NothingMissed
<1>2. Inv /\ NothingMissed /\ [Next]_vars => NothingMissed'
  <2>1. SUFFICES ASSUME Inv, NothingMissed, [Next]_vars PROVE NothingMissed'
    OBVIOUS
  <2>2. CASE UNCHANGED vars
    BY <2>1, <2>2 DEF vars, NothingMissed
  <2>3. CASE Next
    BY <2>1, <2>3, CurrentStep DEF Inv, NothingMissed, Current
  <2> QED
    BY <2>1, <2>2, <2>3
<1> QED
  BY <1>1, <1>2, FeedInvariant, PTL DEF Spec
=============================================================================
