-------------------------------- MODULE Link --------------------------------
(***************************************************************************)
(* One connection between two nodes: raddi::connection with the Receiver    *)
(* and the Transmitter it is made of (raddi_connection, raddi_protocol and   *)
(* server), at both ends, and the stream between them.                     *)
(*                                                                         *)
(* A transmitter has two buffers: `pending` is being sent, `awaiting`       *)
(* collects what comes meanwhile. A writer reserves room (prepare), fills   *)
(* it, and hands it over (transmit); between the two, others may run.       *)
(* send() holds the transmitter's lock throughout and the completion takes  *)
(* it; keep-alives and the answers to them do not.                         *)
(***************************************************************************)
EXTENDS Naturals, Sequences, FiniteSets

CONSTANTS
  Ends,           \* the two ends
  Messages,       \* payloads
  Senders,        \* threads that call connection::send
  Main, Reader,   \* the thread of the timers; the worker that runs inbound
  NoOne, NoMessage,
  Patience,       \* a connection this many periods silent is given up; 4 in
                  \* connection::keepalive
  MaxQueued,      \* bound on the frames before an end when it probes
  Script,         \* what each end has to say, by whichever of its threads
  MaxFailures,    \* bound on the WSASend calls that fail at once
  Mode,           \* raddi::protocol::aes256gcm_mode of each end
  Available       \* the AES ciphers that an end's processor has

ASSUME LinkAssumption ==
  /\ \E a, b \in Ends : a # b /\ Ends = {a, b}
  /\ NoOne \notin Senders \cup {Main, Reader}
  /\ Main # Reader /\ Main \notin Senders /\ Reader \notin Senders
  /\ Patience \in Nat \ {0} /\ MaxQueued \in Nat /\ MaxFailures \in Nat
  /\ Script \in [Ends -> Seq(Messages)]
  /\ Mode \in [Ends -> {"disabled", "automatic", "forced", "force_gcm", "force_aegis"}]
  /\ Available \in [Ends -> SUBSET {"gcm", "aegis"}]

Other(e) == CHOOSE o \in Ends : o # e
Writers  == Senders \cup {Main, Reader}

VARIABLES
  state,          \* connection::state; "connecting" until `connected`, and
                  \* "securing" while head has set `encryption` but not `state`
  open,           \* the socket is valid
  pending, awaiting,   \* buffers of the transmitter, as sequences of frames
  flying,         \* WSASend of `pending` is outstanding
  writing,        \* who is between prepare and transmit
  torn,           \* writers whose accesses to the buffers have overlapped
  wire,           \* frames on their way to an end
  outbound, inbound,   \* nonces
  idle,           \* periods since `latest`
  discord,        \* why an end called coordinator::disagreed
  cancelled,      \* keepalive has given the connection up
  said, got,      \* history: payloads encoded and decoded
  failed,         \* history: which sends failed at once
  broken,         \* the network has dropped the connection
  prompt          \* the network is a good one: it carries everything within
                  \* a period and does not break

buffers == <<pending, awaiting, flying, writing, torn, failed>>
nonces  == <<outbound, inbound, said, got>>
fate    == <<state, open, idle, discord, cancelled>>
network == <<broken, prompt>>
vars    == <<buffers, nonces, fate, network, wire>>

Control(k) == [kind |-> k, nonce |-> 0, payload |-> NoMessage]
Data(n, m) == [kind |-> "data", nonce |-> n, payload |-> m]
Frames ==
  [kind : {"initial", "busy", "probe", "answer"}, nonce : {0}, payload : {NoMessage}]
  \cup [kind : {"data"}, nonce : Nat \ {0}, payload : Messages]

TypeOK ==
  /\ state \in [Ends -> {"connecting", "pending", "securing", "secured", "retired"}]
  /\ pending \in [Ends -> Seq(Frames)] /\ awaiting \in [Ends -> Seq(Frames)]
  /\ wire \in [Ends -> Seq(Frames)]
  /\ open \in [Ends -> BOOLEAN] /\ flying \in [Ends -> BOOLEAN]
  /\ writing \in [Ends -> Writers \cup {NoOne}]
  /\ torn \in [Ends -> SUBSET Writers]
  /\ outbound \in [Ends -> Nat] /\ inbound \in [Ends -> Nat]
  /\ said \in [Ends -> Seq(Messages)] /\ got \in [Ends -> Seq(Messages)]
  /\ idle \in [Ends -> 0 .. Patience]
  /\ discord \in [Ends -> {"no", "refused", "garbled"}]
  /\ cancelled \in [Ends -> BOOLEAN]
  /\ failed \in [Ends -> SUBSET {"first", "rest"}]
  /\ broken \in BOOLEAN /\ prompt \in BOOLEAN

Init ==
  /\ state = [e \in Ends |-> "connecting"] /\ open = [e \in Ends |-> TRUE]
  /\ pending = [e \in Ends |-> <<>>] /\ awaiting = [e \in Ends |-> <<>>]
  /\ wire = [e \in Ends |-> <<>>] /\ flying = [e \in Ends |-> FALSE]
  /\ writing = [e \in Ends |-> NoOne] /\ torn = [e \in Ends |-> {}]
  /\ outbound = [e \in Ends |-> 0] /\ inbound = [e \in Ends |-> 0]
  /\ said = [e \in Ends |-> <<>>] /\ got = [e \in Ends |-> <<>>]
  /\ idle = [e \in Ends |-> 0] /\ discord = [e \in Ends |-> "no"]
  /\ cancelled = [e \in Ends |-> FALSE] /\ failed = [e \in Ends |-> {}]
  /\ broken = FALSE /\ prompt \in BOOLEAN
-----------------------------------------------------------------------------
(* The transmitter. *)

\* connection::disconnected, which every refusal and failed receive ends in.
Disconnect(e) == /\ state' = [state EXCEPT ![e] = "retired"]
                 /\ open' = [open EXCEPT ![e] = FALSE]

\* A thread is about to transmit what it has prepared; it does no other step.
Busy(e, w) == writing[e] = w /\ torn[e] = {}

\* Transmitter::prepare. Room is made in `pending` if that is empty, else at the
\* end of `awaiting`. The vectors move and shrink as others change them, so what
\* is written after an overlap ends up anywhere; the transmitter is followed no
\* further then (every action requires torn[e] = {}).
Prepare(e, w) ==
  /\ open[e] /\ torn[e] = {}
  /\ IF writing[e] = NoOne
     THEN writing' = [writing EXCEPT ![e] = w] /\ UNCHANGED torn
     ELSE torn' = [torn EXCEPT ![e] = {w, writing[e]}] /\ UNCHANGED writing
  /\ UNCHANGED <<pending, awaiting, flying, failed>>

MayFail(e) == ~open[e] \/ Cardinality(UNION {{<<o, k>> : k \in failed[o]} : o \in Ends})
                          < MaxFailures

\* Transmitter::transmit of one frame, when WSASend takes it or it is queued.
TransmitOk(e, w, f) ==
  /\ writing[e] = w /\ torn[e] = {}
  /\ writing' = [writing EXCEPT ![e] = NoOne]
  /\ \/ /\ pending[e] = <<>> /\ open[e]
        /\ pending' = [pending EXCEPT ![e] = <<f>>]
        /\ flying' = [flying EXCEPT ![e] = TRUE] /\ UNCHANGED awaiting
     \/ /\ pending[e] # <<>>
        /\ awaiting' = [awaiting EXCEPT ![e] = Append(@, f)]
        /\ UNCHANGED <<pending, flying>>
  /\ UNCHANGED <<torn, failed>>

\* ... and when it fails at once: `pending` is cleared, and the frame is gone.
TransmitFails(e, w) ==
  /\ writing[e] = w /\ torn[e] = {} /\ pending[e] = <<>> /\ MayFail(e)
  /\ writing' = [writing EXCEPT ![e] = NoOne]
  /\ failed' = [failed EXCEPT ![e] = @ \cup {"first"}]
  /\ UNCHANGED <<pending, awaiting, flying, torn>>

LockedNever(e) == FALSE

\* Transmitter::lock
Locked(e) == writing[e] \in Senders

BatchAgain(e) == pending[e] \o awaiting[e]
BatchOne(e)   == SubSeq(awaiting[e], 1, 1)

\* What a completion sends next, all of it at once.
Batch(e) == awaiting[e]

\* Transmitter::completion: what was awaiting is sent next. If that fails at
\* once it stays where it is, and `pending` is free for a later frame.
Sent(e) ==
  /\ flying[e] /\ open[e] /\ torn[e] = {} /\ ~Locked(e)
  /\ wire' = [wire EXCEPT ![Other(e)] = @ \o pending[e]]
  /\ \/ /\ awaiting[e] # <<>>
        /\ pending' = [pending EXCEPT ![e] = Batch(e)]
        /\ awaiting' = [awaiting EXCEPT ![e] = <<>>]
        /\ UNCHANGED <<flying, failed>>
     \/ /\ awaiting[e] = <<>> \/ MayFail(e)
        /\ pending' = [pending EXCEPT ![e] = <<>>]
        /\ flying' = [flying EXCEPT ![e] = FALSE]
        /\ failed' = [failed EXCEPT ![e] = IF awaiting[e] = <<>> THEN @
                                           ELSE @ \cup {"rest"}]
        /\ UNCHANGED awaiting
  /\ torn' = [torn EXCEPT ![e] = {writing[e]} \ {NoOne}]
  /\ UNCHANGED <<writing, nonces, fate, network>>

\* ... and its failure: `pending` stays occupied and nothing more is sent.
SendAborted(e) ==
  /\ flying[e] /\ torn[e] = {} /\ (~open[e] \/ broken)
  /\ flying' = [flying EXCEPT ![e] = FALSE]
  /\ UNCHANGED <<pending, awaiting, writing, torn, failed, nonces, fate, network, wire>>
-----------------------------------------------------------------------------
(* connection::send: the lock is held from prepare to transmit. *)

SendBegin(e, s) ==
  /\ state[e] \in {"securing", "secured"} /\ outbound[e] < Len(Script[e])
  /\ ~Locked(e)
  /\ Prepare(e, s)
  /\ UNCHANGED <<nonces, fate, network, wire>>

\* encryption::encode
Encode(e) ==
  /\ outbound' = [outbound EXCEPT ![e] = @ + 1]
  /\ said' = [said EXCEPT ![e] = Append(@, Script[e][outbound[e] + 1])]
  /\ UNCHANGED <<inbound, got>>

SendEnd(e, s) ==
  /\ Busy(e, s)
  /\ LET n == outbound[e] + 1 IN
       \/ Encode(e) /\ TransmitOk(e, s, Data(n, Script[e][n]))
       \/ Encode(e) /\ TransmitFails(e, s)
  /\ UNCHANGED <<fate, network, wire>>
-----------------------------------------------------------------------------
(* Establishing the connection. *)

\* connection::connected: the initial frame, the first thing sent.
Connected(e) ==
  /\ state[e] = "connecting" /\ open[e]
  /\ pending' = [pending EXCEPT ![e] = <<Control("initial")>>]
  /\ flying' = [flying EXCEPT ![e] = TRUE]
  /\ state' = [state EXCEPT ![e] = "pending"]
  /\ UNCHANGED <<awaiting, writing, torn, failed, nonces, network, wire>>
  /\ UNCHANGED <<open, idle, discord, cancelled>>

\* connection::overloaded: no buffer for an accepted connection.
Overloaded(e) ==
  /\ state[e] = "connecting" /\ open[e]
  /\ wire' = [wire EXCEPT ![Other(e)] = Append(@, Control("busy"))]
  /\ Disconnect(e)
  /\ UNCHANGED <<buffers, nonces, network, idle, discord, cancelled>>

\* The AES ciphers that an end's mode lets it use; those it offers
\* (proposal::propose); those that it finds both ends can use.
Allowed(e) == CASE Mode[e] = "disabled"    -> {}
                [] Mode[e] = "force_gcm"   -> {"gcm"}
                [] Mode[e] = "force_aegis" -> {"aegis"}
                [] OTHER                   -> {"gcm", "aegis"}
Offer(e)   == IF Mode[e] \in {"force_gcm", "force_aegis"} THEN Allowed(e)
              ELSE Allowed(e) \cap Available[e]
Common(e)  == Offer(Other(e)) \cap Available[e] \cap Allowed(e)

\* proposal::accept: the cipher an end chooses, seeing the other's offer.
Cipher(e) == IF "aegis" \in Common(e) THEN "aegis"
             ELSE IF "gcm" \in Common(e) THEN "gcm"
             ELSE IF Mode[e] \in {"disabled", "automatic"} THEN "xchacha20"
             ELSE "none"

\* connection::head returns true: `encryption` replaces `proposal`, and
\* coordinator::established may send already.
Handshake(e) ==
  /\ state[e] = "pending" /\ Cipher(e) # "none"
  /\ state' = [state EXCEPT ![e] = "securing"]
  /\ UNCHANGED <<buffers, nonces, open, idle, discord, cancelled>>

Secure(e) ==
  /\ state[e] = "securing"
  /\ state' = [state EXCEPT ![e] = "secured"]
  /\ UNCHANGED <<buffers, nonces, network, wire, open, idle, discord, cancelled>>

\* head returns false: a reflected, reciprocal or unacceptable connection.
Refuse(e) ==
  /\ state[e] = "pending"
  /\ discord' = [discord EXCEPT ![e] = "refused"]
  /\ Disconnect(e)
  /\ UNCHANGED <<buffers, nonces, idle, cancelled>>
-----------------------------------------------------------------------------
(* connection::inbound on the first frame of the stream. *)

AuthenticatesLater(e, f) ==
  f.nonce > inbound[e] /\ torn[Other(e)] = {} /\ Cipher(Other(e)) = Cipher(e)

\* encryption::decode succeeds: the frame was encoded with the cipher, the keys
\* and the nonce that its receiver has come to.
Authenticates(e, f) ==
  f.nonce = inbound[e] + 1 /\ torn[Other(e)] = {} /\ Cipher(Other(e)) = Cipher(e)

HeardNothing(e) == UNCHANGED idle

\* connection::latest
Heard(e) == idle' = [idle EXCEPT ![e] = 0]

Decode(e, f) ==
  /\ inbound' = [inbound EXCEPT ![e] = @ + 1]
  /\ UNCHANGED <<outbound, said, buffers>>
  /\ IF Authenticates(e, f)
     THEN /\ got' = [got EXCEPT ![e] = Append(@, f.payload)]
          /\ Heard(e)
          /\ UNCHANGED <<state, open, discord, cancelled>>
     ELSE /\ discord' = [discord EXCEPT ![e] = "garbled"]
          /\ Disconnect(e)
          /\ UNCHANGED <<got, idle, cancelled>>

Receive(e) ==
  /\ wire[e] # <<>> /\ open[e] /\ ~Busy(e, Reader)
  /\ LET f == Head(wire[e]) IN
       \/ f.kind = "initial" /\ (Handshake(e) \/ Refuse(e))
       \/ /\ f.kind = "busy" /\ state[e] = "pending" /\ Disconnect(e)
          /\ UNCHANGED <<buffers, nonces, idle, discord, cancelled>>
       \/ /\ f.kind = "data" /\ state[e] = "secured" /\ Decode(e, f)
       \/ /\ f.kind = "probe" /\ state[e] = "secured"
          /\ \/ Prepare(e, Reader)
             \/ torn[e] # {} /\ UNCHANGED buffers
          /\ UNCHANGED <<nonces, fate>>
       \/ /\ f.kind = "answer" /\ state[e] = "secured"
          /\ Heard(e)
          /\ UNCHANGED <<buffers, nonces, state, open, discord, cancelled>>
  /\ wire' = [wire EXCEPT ![e] = Tail(@)]
  /\ UNCHANGED network

\* The answer to a probe; a failure to send it ends the connection.
Answer(e) ==
  /\ \/ TransmitOk(e, Reader, Control("answer")) /\ UNCHANGED <<state, open>>
     \/ TransmitFails(e, Reader) /\ Disconnect(e)
  /\ UNCHANGED <<nonces, network, wire, idle, discord, cancelled>>

\* The receive completes with an error or with nothing.
Closed(e) ==
  /\ state[e] # "retired" /\ state[e] # "securing" /\ ~Busy(e, Reader)
  /\ ~open[e] \/ broken \/ ~open[Other(e)]
  /\ Disconnect(e)
  /\ UNCHANGED <<buffers, nonces, network, wire, idle, discord, cancelled>>
-----------------------------------------------------------------------------
(* connection::keepalive, once every period, on the main thread. *)

\* Transmitter::unsynchronized_is_live
Live(e) == awaiting[e] # <<>> /\ pending[e] # <<>>

\* On a prompt network whatever can happen without waiting has happened when a
\* period is over.
Settled ==
  \A e \in Ends :
    /\ state[e] \in {"secured", "retired"} /\ ~flying[e] /\ writing[e] = NoOne
    /\ state[e] = "secured" => open[e] /\ open[Other(e)] /\ wire[e] = <<>>

TimePasses == prompt /\ (\A e \in Ends : torn[e] = {}) => Settled

GivenUpLate(e) == idle[e] > Patience

\* Whether keepalive gives the connection up.
GivenUp(e) == idle[e] = Patience

Keepalive(e) ==
  /\ TimePasses /\ state[e] # "retired" /\ open[e] /\ ~Busy(e, Main)
  /\ Len(awaiting[e]) + Len(wire[Other(e)]) < MaxQueued
  /\ \/ /\ GivenUp(e)                   \* cancel
        /\ open' = [open EXCEPT ![e] = FALSE]
        /\ cancelled' = [cancelled EXCEPT ![e] = TRUE]
        /\ UNCHANGED <<buffers, idle>>
     \/ /\ ~GivenUp(e)                  \* probe
        /\ state[e] = "secured" /\ ~Live(e)
        /\ idle' = [idle EXCEPT ![e] = @ + 1]
        /\ Prepare(e, Main)
        /\ UNCHANGED <<open, cancelled>>
     \/ /\ ~GivenUp(e)
        /\ state[e] # "secured" \/ Live(e) \/ torn[e] # {}
        /\ idle' = [idle EXCEPT ![e] = @ + 1]
        /\ UNCHANGED <<buffers, open, cancelled>>
  /\ UNCHANGED <<nonces, network, wire, state, discord>>

Probe(e) ==
  /\ TransmitOk(e, Main, Control("probe")) \/ TransmitFails(e, Main)
  /\ UNCHANGED <<nonces, fate, network, wire>>

\* The network drops the connection.
Break == /\ ~prompt /\ ~broken /\ broken' = TRUE
         /\ UNCHANGED <<buffers, nonces, fate, wire, prompt>>
-----------------------------------------------------------------------------
Next ==
  \/ Break
  \/ \E e \in Ends :
       \/ Connected(e) \/ Overloaded(e) \/ Secure(e) \/ Receive(e) \/ Answer(e)
       \/ Closed(e) \/ Sent(e) \/ SendAborted(e) \/ Keepalive(e) \/ Probe(e)
       \/ \E s \in Senders : SendBegin(e, s) \/ SendEnd(e, s)

\* The system completes what it has been asked to do, the pool runs completions,
\* threads do not stop inside a handler, and the timer goes on ticking. Nobody
\* has to send, and nothing has to fail.
Fairness ==
  \A e \in Ends :
    /\ WF_vars(Connected(e)) /\ WF_vars(Secure(e)) /\ WF_vars(Receive(e))
    /\ WF_vars(Answer(e)) /\ WF_vars(Closed(e)) /\ WF_vars(Sent(e))
    /\ WF_vars(SendAborted(e)) /\ WF_vars(Keepalive(e)) /\ WF_vars(Probe(e))
    /\ \A s \in Senders : WF_vars(SendEnd(e, s))

Spec == Init /\ [][Next]_vars /\ Fairness
-----------------------------------------------------------------------------
Fifo == INSTANCE FifoLink

\* What one end decodes is what the other has encoded, in that order and without
\* gaps, whatever sends fail and whatever overlaps: the nonces of `encode` and
\* `decode` see to it.
ImplementsFifo == Fifo!Spec

\* Two nodes that follow the protocol find each other's stream garbled, and count
\* it against each other (coordinator::disagreed), only after a send that failed
\* at once or accesses to a transmitter that overlapped. Frames leave in the order
\* of their nonces, through two buffers that change places.
GarbledHasCause ==
  \A e \in Ends : discord[e] = "garbled" => failed[Other(e)] # {} \/ torn[Other(e)] # {}

\* The lock of send() keeps senders and completions apart: accesses overlap only
\* where a keep-alive or an answer to one is written.
TornByKeepalives ==
  \A e \in Ends : torn[e] # {} => torn[e] \cap {Main, Reader} # {}

\* On a prompt network, two idle nodes keep their connection: the answers to
\* keep-alives arrive before connection::keepalive runs out of patience.
HealthyStays ==
  \A e \in Ends : cancelled[e] => \/ ~prompt
                                  \/ \E o \in Ends : torn[o] # {} \/ failed[o] # {}

\* What has been encoded arrives, or the connection ends: nothing is left in
\* `awaiting` after a completion, even one whose send failed (the next keep-alive
\* starts the transmitter again). A frame whose own send failed is lost.
Flushed ==
  \A e \in Ends :
    (Len(got[Other(e)]) < Len(said[e])) ~>
      \/ got[Other(e)] = said[e] \/ "first" \in failed[e]
      \/ \E o \in Ends : state[o] = "retired"
====
