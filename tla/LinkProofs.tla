----------------------------- MODULE LinkProofs -----------------------------
(* Theorems about Link, for any two ends, senders, messages and ciphers.      *)
EXTENDS Link, SequenceTheorems, TLAPS

-----------------------------------------------------------------------------
(* The ends. *)

LEMMA Others == ASSUME NEW e \in Ends
                PROVE  Other(e) \in Ends /\ Other(e) # e /\ Other(Other(e)) = e
  <1>1. PICK a, b \in Ends : a # b /\ Ends = {a, b}
    BY LinkAssumption
  <1>2. \A x \in Ends : \E o \in Ends : o # x
    BY <1>1
  <1>3. \A x \in Ends : Other(x) \in Ends /\ Other(x) # x
    BY <1>2 DEF Other
  <1> QED
    BY <1>1, <1>3

\* proposal::accept: when neither end refuses the other's offer, both have chosen
\* the same cipher, whatever their modes and processors.
THEOREM CiphersAgree ==
  ASSUME NEW e \in Ends, Cipher(e) # "none", Cipher(Other(e)) # "none"
  PROVE  Cipher(e) = Cipher(Other(e))
  <1>1. Other(Other(e)) = e
    BY Others
  <1>2. /\ Mode[e] \in {"disabled", "automatic", "forced", "force_gcm", "force_aegis"}
        /\ Mode[Other(e)] \in {"disabled", "automatic", "forced", "force_gcm", "force_aegis"}
    BY LinkAssumption, Others
  <1> QED
    BY <1>1, <1>2 DEF Cipher, Common, Offer, Allowed
-----------------------------------------------------------------------------
(* Types. A sender that is between prepare and transmit has something to say.  *)

Ready == \A e \in Ends : writing[e] \in Senders => outbound[e] < Len(Script[e])

TypeInv == TypeOK /\ Ready

LEMMA FrameTypes ==
  /\ \A k \in {"initial", "busy", "probe", "answer"} : Control(k) \in Frames
  /\ \A n \in Nat \ {0}, m \in Messages : Data(n, m) \in Frames
  /\ \A f \in Frames : f.kind = "data" => f.nonce \in Nat \ {0} /\ f.payload \in Messages
  BY DEF Control, Data, Frames

\* The transmitter's variables.
BufferTypes ==
  /\ pending \in [Ends -> Seq(Frames)] /\ awaiting \in [Ends -> Seq(Frames)]
  /\ flying \in [Ends -> BOOLEAN] /\ failed \in [Ends -> SUBSET {"first", "rest"}]
  /\ writing \in [Ends -> Writers \cup {NoOne}] /\ torn \in [Ends -> SUBSET Writers]

\* The other variables of an end, and the network's.
NonceTypes ==
  /\ outbound \in [Ends -> Nat] /\ inbound \in [Ends -> Nat]
  /\ said \in [Ends -> Seq(Messages)] /\ got \in [Ends -> Seq(Messages)]

FateTypes ==
  /\ state \in [Ends -> {"connecting", "pending", "securing", "secured", "retired"}]
  /\ open \in [Ends -> BOOLEAN] /\ idle \in [Ends -> 0 .. Patience]
  /\ discord \in [Ends -> {"no", "refused", "garbled"}]
  /\ cancelled \in [Ends -> BOOLEAN]

NetworkTypes ==
  wire \in [Ends -> Seq(Frames)] /\ broken \in BOOLEAN /\ prompt \in BOOLEAN

LEMMA TypeParts ==
  /\ TypeOK <=> BufferTypes /\ NonceTypes /\ FateTypes /\ NetworkTypes
  /\ TypeOK' <=> BufferTypes' /\ NonceTypes' /\ FateTypes' /\ NetworkTypes'
  BY DEF TypeOK, BufferTypes, NonceTypes, FateTypes, NetworkTypes

LEMMA TypeInit == Init => TypeInv
  <1> SUFFICES ASSUME Init PROVE TypeInv
    OBVIOUS
  <1>1. <<>> \in Seq(Frames) /\ <<>> \in Seq(Messages)
    OBVIOUS
  <1>2. NoOne \notin Senders /\ Patience \in Nat
    BY LinkAssumption
  <1>3. BufferTypes
    BY <1>1 DEF Init, BufferTypes
  <1>4. NonceTypes
    BY <1>1 DEF Init, NonceTypes
  <1>5. FateTypes
    BY <1>2 DEF Init, FateTypes
  <1>6. NetworkTypes
    BY <1>1 DEF Init, NetworkTypes
  <1>7. Ready
    BY <1>2 DEF Init, Ready
  <1> QED
    BY <1>3, <1>4, <1>5, <1>6, <1>7, TypeParts DEF TypeInv

LEMMA PrepareTypes ==
  ASSUME BufferTypes, Ready, NEW e \in Ends, NEW w \in Writers, Prepare(e, w),
         w \in Senders => outbound[e] < Len(Script[e]), UNCHANGED outbound
  PROVE  BufferTypes' /\ Ready'
  <1>1. writing' \in [Ends -> Writers \cup {NoOne}]
    BY DEF Prepare, BufferTypes
  <1>2. torn' \in [Ends -> SUBSET Writers]
    <2>1. CASE writing[e] = NoOne
      BY <2>1 DEF Prepare, BufferTypes
    <2>2. CASE writing[e] # NoOne
      <3>1. {w, writing[e]} \in SUBSET Writers
        BY <2>2 DEF BufferTypes
      <3> QED
        BY <2>2, <3>1 DEF Prepare, BufferTypes
    <2> QED
      BY <2>1, <2>2
  <1>3. Ready'
    BY DEF Prepare, BufferTypes, Ready
  <1> QED
    BY <1>1, <1>2, <1>3 DEF Prepare, BufferTypes

LEMMA TransmitTypes ==
  ASSUME BufferTypes, Ready, NEW e \in Ends, NEW w \in Writers, NEW f \in Frames,
         TransmitOk(e, w, f) \/ TransmitFails(e, w),
         \A o \in Ends \ {e} : outbound'[o] = outbound[o]
  PROVE  BufferTypes' /\ Ready'
  <1>1. writing' = [writing EXCEPT ![e] = NoOne]
    BY DEF TransmitOk, TransmitFails
  <1>2. pending' \in [Ends -> Seq(Frames)] /\ awaiting' \in [Ends -> Seq(Frames)]
    <2>1. <<f>> \in Seq(Frames) /\ Append(awaiting[e], f) \in Seq(Frames)
      BY DEF BufferTypes
    <2> QED
      BY <2>1, ZenonT(60) DEF TransmitOk, TransmitFails, BufferTypes
  <1>3. flying' \in [Ends -> BOOLEAN] /\ failed' \in [Ends -> SUBSET {"first", "rest"}]
    BY SMTT(30), ZenonT(60) DEF TransmitOk, TransmitFails, BufferTypes
  <1>4. NoOne \notin Senders
    BY LinkAssumption
  <1>5. Ready'
    BY <1>1, <1>4 DEF BufferTypes, Ready
  <1> QED
    BY <1>1, <1>2, <1>3, <1>5 DEF TransmitOk, TransmitFails, BufferTypes

LEMMA Unchanged ==
  /\ BufferTypes /\ UNCHANGED buffers => BufferTypes'
  /\ NonceTypes /\ UNCHANGED nonces => NonceTypes'
  /\ FateTypes /\ UNCHANGED fate => FateTypes'
  /\ NetworkTypes /\ UNCHANGED <<network, wire>> => NetworkTypes'
  /\ Ready /\ UNCHANGED <<buffers, outbound>> => Ready'
  BY DEF BufferTypes, NonceTypes, FateTypes, NetworkTypes, Ready, buffers, nonces,
         fate, network

\* What an action of the reader, of the main thread or of the system leaves of the
\* inductive invariants is said of each group of variables.
LEMMA DisconnectTypes ==
  ASSUME FateTypes, NEW e \in Ends, Disconnect(e), UNCHANGED <<idle, cancelled>>,
         discord' \in [Ends -> {"no", "refused", "garbled"}]
  PROVE  FateTypes'
  BY DEF FateTypes, Disconnect

LEMMA ReaderWrites == Main \in Writers /\ Reader \in Writers
                      /\ Main \notin Senders /\ Reader \notin Senders
                      /\ NoOne \notin Senders /\ Patience \in Nat
  BY LinkAssumption DEF Writers

LEMMA DecodeTypes ==
  ASSUME NonceTypes, FateTypes, BufferTypes, Ready, NEW e \in Ends, NEW f \in Frames,
         f.payload \in Messages, Decode(e, f)
  PROVE  NonceTypes' /\ FateTypes' /\ BufferTypes' /\ Ready'
  <1>1. Append(got[e], f.payload) \in Seq(Messages)
    BY DEF NonceTypes
  <1>2. NonceTypes'
    <2>1. /\ got' = [got EXCEPT ![e] = Append(@, f.payload)] \/ got' = got
          /\ inbound' = [inbound EXCEPT ![e] = @ + 1]
          /\ UNCHANGED <<outbound, said>>
      BY DEF Decode
    <2>2. inbound' \in [Ends -> Nat] /\ UNCHANGED <<outbound, said>>
      BY <2>1 DEF NonceTypes
    <2>3. got' \in [Ends -> Seq(Messages)]
      BY <1>1, <2>1 DEF NonceTypes
    <2> QED
      BY <2>2, <2>3 DEF NonceTypes
  <1>3. FateTypes'
    <2>1. CASE Authenticates(e, f)
      <3>1. Heard(e) /\ UNCHANGED <<state, open, discord, cancelled>>
        BY <2>1 DEF Decode
      <3> QED
        BY <3>1, ReaderWrites DEF FateTypes, Heard
    <2>2. CASE ~Authenticates(e, f)
      <3>1. Disconnect(e) /\ UNCHANGED <<idle, cancelled>>
            /\ discord' = [discord EXCEPT ![e] = "garbled"]
        BY <2>2 DEF Decode
      <3> QED
        BY <3>1, DisconnectTypes DEF FateTypes
    <2> QED
      BY <2>1, <2>2
  <1> QED
    BY <1>2, <1>3, Unchanged DEF Decode

LEMMA ReceiveTypes ==
  ASSUME TypeInv, NEW e \in Ends, Receive(e)
  PROVE  TypeInv'
  <1> DEFINE f == Head(wire[e])
  <1>1. /\ BufferTypes /\ NonceTypes /\ FateTypes /\ NetworkTypes /\ Ready
        /\ wire[e] \in Seq(Frames) /\ wire[e] # <<>>
    BY TypeParts DEF TypeInv, NetworkTypes, Receive
  <1>2. f \in Frames /\ Tail(wire[e]) \in Seq(Frames)
    BY <1>1
  <1>3. NetworkTypes'
    BY <1>1, <1>2 DEF NetworkTypes, Receive, network
  <1> HIDE DEF f
  <1>4. \/ f.kind = "initial" /\ (Handshake(e) \/ Refuse(e))
        \/ /\ f.kind = "busy" /\ state[e] = "pending" /\ Disconnect(e)
           /\ UNCHANGED <<buffers, nonces, idle, discord, cancelled>>
        \/ f.kind = "data" /\ state[e] = "secured" /\ Decode(e, f)
        \/ /\ f.kind = "probe" /\ state[e] = "secured"
           /\ Prepare(e, Reader) \/ (torn[e] # {} /\ UNCHANGED buffers)
           /\ UNCHANGED <<nonces, fate>>
        \/ /\ f.kind = "answer" /\ state[e] = "secured" /\ Heard(e)
           /\ UNCHANGED <<buffers, nonces, state, open, discord, cancelled>>
    BY DEF Receive, f
  <1>5. BufferTypes' /\ NonceTypes' /\ FateTypes' /\ Ready'
    <2>1. CASE Handshake(e)
      BY <2>1, <1>1, Unchanged DEF Handshake, FateTypes, nonces
    <2>2. CASE Refuse(e)
      BY <2>2, <1>1, Unchanged DEF Refuse, FateTypes, nonces, Disconnect
    <2>3. CASE Disconnect(e) /\ UNCHANGED <<buffers, nonces, idle, discord, cancelled>>
      BY <2>3, <1>1, Unchanged DEF FateTypes, nonces, Disconnect
    <2>4. CASE f.kind = "data" /\ Decode(e, f)
      BY <2>4, <1>1, <1>2, DecodeTypes, FrameTypes
    <2>5. CASE Prepare(e, Reader) /\ UNCHANGED <<nonces, fate>>
      BY <2>5, <1>1, Unchanged, PrepareTypes, ReaderWrites DEF nonces
    <2>6. CASE Heard(e) /\ UNCHANGED <<buffers, nonces, state, open, discord, cancelled>>
      BY <2>6, <1>1, Unchanged, ReaderWrites DEF Heard, FateTypes, nonces
    <2>7. CASE UNCHANGED <<buffers, nonces, fate>>
      BY <2>7, <1>1, Unchanged DEF nonces
    <2> QED
      BY <1>4, <2>1, <2>2, <2>3, <2>4, <2>5, <2>6, <2>7
  <1> QED
    BY <1>3, <1>5, TypeParts DEF TypeInv

LEMMA SendEndTypes ==
  ASSUME TypeInv, NEW e \in Ends, NEW s \in Senders, SendEnd(e, s)
  PROVE  TypeInv'
  <1> DEFINE n == outbound[e] + 1
             m == Script[e][n]
  <1>1. /\ BufferTypes /\ NonceTypes /\ FateTypes /\ NetworkTypes /\ Ready
        /\ s \in Writers /\ writing[e] = s /\ Script[e] \in Seq(Messages)
        /\ outbound[e] \in Nat
    BY TypeParts, LinkAssumption DEF TypeInv, SendEnd, Busy, Writers, NonceTypes
  <1>2. n \in Nat \ {0} /\ n \in 1 .. Len(Script[e])
    BY <1>1 DEF Ready
  <1>3. m \in Messages
    BY <1>1, <1>2
  <1>4. Encode(e) /\ (TransmitOk(e, s, Data(n, m)) \/ TransmitFails(e, s))
        /\ UNCHANGED <<fate, network, wire>>
    BY DEF SendEnd
  <1>5. Data(n, m) \in Frames
    BY <1>2, <1>3, FrameTypes
  <1> HIDE DEF n, m
  <1>6. \A o \in Ends \ {e} : outbound'[o] = outbound[o]
    BY <1>1, <1>4 DEF Encode, NonceTypes
  <1>7. BufferTypes' /\ Ready'
    BY <1>1, <1>4, <1>5, <1>6, TransmitTypes
  <1>8. NonceTypes'
    <2>1. Append(said[e], m) \in Seq(Messages)
      BY <1>1, <1>3 DEF NonceTypes
    <2>2. said' \in [Ends -> Seq(Messages)]
      BY <1>1, <1>4, <2>1 DEF Encode, NonceTypes, m, n
    <2>3. outbound' \in [Ends -> Nat] /\ UNCHANGED <<inbound, got>>
      BY <1>1, <1>4 DEF Encode, NonceTypes
    <2> QED
      BY <1>1, <2>2, <2>3 DEF NonceTypes
  <1>9. FateTypes' /\ NetworkTypes'
    BY <1>1, <1>4, Unchanged
  <1> QED
    BY <1>7, <1>8, <1>9, TypeParts DEF TypeInv

LEMMA SentTypes == ASSUME TypeInv, NEW e \in Ends, Sent(e) PROVE TypeInv'
  <1>1. /\ BufferTypes /\ NonceTypes /\ FateTypes /\ NetworkTypes /\ Ready
        /\ UNCHANGED <<writing, nonces, fate, network>>
        /\ wire[Other(e)] \in Seq(Frames) /\ pending[e] \in Seq(Frames)
        /\ awaiting[e] \in Seq(Frames) /\ <<>> \in Seq(Frames)
        /\ writing[e] \in Writers \cup {NoOne}
    BY TypeParts, Others DEF TypeInv, Sent, BufferTypes, NetworkTypes
  <1>2. wire[Other(e)] \o pending[e] \in Seq(Frames)
    BY <1>1
  <1>3. wire' \in [Ends -> Seq(Frames)]
    BY <1>1, <1>2 DEF NetworkTypes, Sent
  <1>4. NetworkTypes'
    BY <1>1, <1>3 DEF NetworkTypes, network
  <1>5. pending' \in [Ends -> Seq(Frames)] /\ awaiting' \in [Ends -> Seq(Frames)]
    <2>1. /\ \/ pending' = [pending EXCEPT ![e] = awaiting[e]]
             \/ pending' = [pending EXCEPT ![e] = <<>>]
          /\ \/ awaiting' = [awaiting EXCEPT ![e] = <<>>]
             \/ awaiting' = awaiting
      BY DEF Sent, Batch
    <2>2. pending' \in [Ends -> Seq(Frames)]
      BY <1>1, <2>1 DEF BufferTypes
    <2>3. awaiting' \in [Ends -> Seq(Frames)]
      BY <1>1, <2>1 DEF BufferTypes
    <2> QED
      BY <2>2, <2>3
  <1>6. flying' \in [Ends -> BOOLEAN] /\ failed' \in [Ends -> SUBSET {"first", "rest"}]
    <2>1. failed[e] \cup {"rest"} \in SUBSET {"first", "rest"}
      BY <1>1 DEF BufferTypes
    <2> QED
      BY <1>1, <2>1, ZenonT(60) DEF Sent, BufferTypes
  <1>7. torn' \in [Ends -> SUBSET Writers]
    <2>1. {writing[e]} \ {NoOne} \in SUBSET Writers
      BY <1>1
    <2> QED
      BY <1>1, <2>1 DEF Sent, BufferTypes
  <1>8. BufferTypes' /\ Ready'
    BY <1>1, <1>5, <1>6, <1>7 DEF BufferTypes, Ready, nonces
  <1> QED
    BY <1>1, <1>4, <1>8, Unchanged, TypeParts DEF TypeInv

LEMMA TypeNext == TypeInv /\ [Next]_vars => TypeInv'
  <1> SUFFICES ASSUME TypeInv, [Next]_vars PROVE TypeInv'
    OBVIOUS
  <1>1. BufferTypes /\ NonceTypes /\ FateTypes /\ NetworkTypes /\ Ready
    BY TypeParts DEF TypeInv
  <1>2. CASE UNCHANGED vars
    BY <1>1, <1>2, Unchanged, TypeParts DEF vars, TypeInv, nonces
  <1>3. CASE Break
    <2>1. UNCHANGED <<buffers, nonces, fate>> /\ NetworkTypes'
      BY <1>1, <1>3 DEF Break, NetworkTypes
    <2> QED
      BY <1>1, <2>1, Unchanged, TypeParts DEF TypeInv, nonces
  <1>4. ASSUME NEW e \in Ends, Connected(e) PROVE TypeInv'
    <2>1. BufferTypes'
      <3>1. <<Control("initial")>> \in Seq(Frames)
        BY FrameTypes
      <3> QED
        BY <1>1, <1>4, <3>1 DEF Connected, BufferTypes
    <2>2. FateTypes' /\ Ready'
      BY <1>1, <1>4 DEF Connected, FateTypes, Ready, nonces
    <2> QED
      BY <1>1, <1>4, <2>1, <2>2, Unchanged, TypeParts DEF Connected, TypeInv
  <1>5. ASSUME NEW e \in Ends, Overloaded(e) PROVE TypeInv'
    <2>1. wire' \in [Ends -> Seq(Frames)]
      <3>1. Append(wire[Other(e)], Control("busy")) \in Seq(Frames)
        BY <1>1, FrameTypes, Others DEF NetworkTypes
      <3> QED
        BY <1>1, <1>5, <3>1 DEF Overloaded, NetworkTypes
    <2>2. NetworkTypes' /\ FateTypes'
      BY <1>1, <1>5, <2>1 DEF Overloaded, NetworkTypes, network, FateTypes, Disconnect
    <2> QED
      BY <1>1, <1>5, <2>2, Unchanged, TypeParts DEF Overloaded, TypeInv, nonces
  <1>6. ASSUME NEW e \in Ends, Secure(e) PROVE TypeInv'
    <2>1. FateTypes'
      BY <1>1, <1>6 DEF Secure, FateTypes
    <2> QED
      BY <1>1, <1>6, <2>1, Unchanged, TypeParts DEF Secure, TypeInv, nonces
  <1>7. ASSUME NEW e \in Ends, Receive(e) PROVE TypeInv'
    BY <1>7, ReceiveTypes
  <1>8. ASSUME NEW e \in Ends, Answer(e) PROVE TypeInv'
    <2>1. BufferTypes' /\ Ready'
      BY <1>1, <1>8, TransmitTypes, FrameTypes, ReaderWrites DEF Answer, nonces
    <2>2. FateTypes'
      BY <1>1, <1>8 DEF Answer, FateTypes, Disconnect
    <2> QED
      BY <1>1, <1>8, <2>1, <2>2, Unchanged, TypeParts DEF Answer, TypeInv
  <1>9. ASSUME NEW e \in Ends, Closed(e) PROVE TypeInv'
    <2>1. FateTypes'
      BY <1>1, <1>9 DEF Closed, FateTypes, Disconnect
    <2> QED
      BY <1>1, <1>9, <2>1, Unchanged, TypeParts DEF Closed, TypeInv, nonces
  <1>10. ASSUME NEW e \in Ends, Sent(e) PROVE TypeInv'
    BY <1>10, SentTypes
  <1>11. ASSUME NEW e \in Ends, SendAborted(e) PROVE TypeInv'
    <2>1. BufferTypes' /\ Ready'
      BY <1>1, <1>11 DEF SendAborted, BufferTypes, Ready, nonces
    <2> QED
      BY <1>1, <1>11, <2>1, Unchanged, TypeParts DEF SendAborted, TypeInv
  <1>12. ASSUME NEW e \in Ends, Keepalive(e) PROVE TypeInv'
    <2>1. BufferTypes' /\ Ready'
      <3>1. UNCHANGED nonces /\ (Prepare(e, Main) \/ UNCHANGED buffers)
        BY <1>12 DEF Keepalive
      <3> QED
        BY <1>1, <3>1, Unchanged, PrepareTypes, ReaderWrites DEF nonces
    <2>2. idle' \in [Ends -> 0 .. Patience]
      BY <1>1, <1>12, ReaderWrites DEF Keepalive, GivenUp, FateTypes
    <2>3. FateTypes'
      BY <1>1, <1>12, <2>2 DEF Keepalive, FateTypes
    <2> QED
      BY <1>1, <1>12, <2>1, <2>3, Unchanged, TypeParts DEF Keepalive, TypeInv
  <1>13. ASSUME NEW e \in Ends, Probe(e) PROVE TypeInv'
    <2>1. BufferTypes' /\ Ready'
      BY <1>1, <1>13, TransmitTypes, FrameTypes, ReaderWrites DEF Probe, nonces
    <2> QED
      BY <1>1, <1>13, <2>1, Unchanged, TypeParts DEF Probe, TypeInv
  <1>14. ASSUME NEW e \in Ends, NEW s \in Senders, SendBegin(e, s) PROVE TypeInv'
    <2>1. BufferTypes' /\ Ready'
      BY <1>1, <1>14, PrepareTypes DEF SendBegin, nonces, Writers
    <2> QED
      BY <1>1, <1>14, <2>1, Unchanged, TypeParts DEF SendBegin, TypeInv
  <1>15. ASSUME NEW e \in Ends, NEW s \in Senders, SendEnd(e, s) PROVE TypeInv'
    BY <1>15, SendEndTypes
  <1> QED
    BY <1>2, <1>3, <1>4, <1>5, <1>6, <1>7, <1>8, <1>9, <1>10, <1>11, <1>12, <1>13,
       <1>14, <1>15 DEF Next

\* Type correctness, for any script, patience and bounds.
THEOREM TypeCorrect == Spec => []TypeOK
  <1>1. Init => TypeInv
    BY TypeInit
  <1>2. TypeInv /\ [Next]_vars => TypeInv'
    BY TypeNext
  <1> QED
    BY <1>1, <1>2, PTL DEF Spec, TypeInv
-----------------------------------------------------------------------------
(* The lock. A sender writes alone: when accesses overlap, one of the two is   *)
(* the main thread's or a reader's.                                           *)

LEMMA TornNext ==
  TypeInv /\ TornByKeepalives /\ [Next]_vars => TornByKeepalives'
  <1> SUFFICES ASSUME TypeInv, TornByKeepalives, [Next]_vars, NEW o \in Ends, torn'[o] # {}
               PROVE  torn'[o] \cap {Main, Reader} # {}
    BY DEF TornByKeepalives
  <1>1. BufferTypes /\ torn \in [Ends -> SUBSET Writers]
    BY TypeParts DEF TypeInv, BufferTypes
  <1>2. CASE torn' = torn
    BY <1>2 DEF TornByKeepalives
  <1>3. ASSUME NEW e \in Ends, NEW w \in Writers, Prepare(e, w),
               w \in Senders => ~Locked(e)
        PROVE  torn'[o] \cap {Main, Reader} # {}
    <2>1. w \in {Main, Reader} \/ writing[e] \in {Main, Reader, NoOne}
      BY <1>1, <1>3 DEF Locked, Writers, BufferTypes
    <2>2. CASE o = e /\ writing[e] # NoOne
      BY <1>1, <1>3, <2>1, <2>2 DEF Prepare
    <2>3. CASE o # e \/ writing[e] = NoOne
      <3>1. torn'[o] = torn[o]
        BY <1>1, <1>3, <2>3 DEF Prepare
      <3> QED
        BY <3>1 DEF TornByKeepalives
    <2> QED
      BY <2>2, <2>3
  <1>4. ASSUME NEW e \in Ends, Sent(e) PROVE torn'[o] \cap {Main, Reader} # {}
    <2>1. writing[e] \in {Main, Reader, NoOne}
      BY <1>1, <1>4 DEF Sent, Locked, Writers, BufferTypes
    <2>2. torn' = [torn EXCEPT ![e] = {writing[e]} \ {NoOne}]
      BY <1>4 DEF Sent
    <2>3. CASE o = e
      BY <1>1, <2>1, <2>2, <2>3
    <2>4. CASE o # e
      BY <1>1, <2>2, <2>4 DEF TornByKeepalives
    <2> QED
      BY <2>3, <2>4
  <1>5. CASE UNCHANGED vars
    BY <1>2, <1>5 DEF vars, buffers
  <1>6. CASE Break
    BY <1>2, <1>6 DEF Break, buffers
  <1>7. ASSUME NEW e \in Ends,
               \/ Connected(e) \/ Overloaded(e) \/ Secure(e) \/ Answer(e)
               \/ Closed(e) \/ SendAborted(e) \/ Probe(e)
        PROVE  torn' = torn
    BY <1>7 DEF Connected, Overloaded, Secure, Answer, Closed, SendAborted, Probe,
                TransmitOk, TransmitFails, buffers
  <1>8. ASSUME NEW e \in Ends, Receive(e) PROVE torn'[o] \cap {Main, Reader} # {}
    <2>1. Prepare(e, Reader) \/ torn' = torn
      BY <1>8 DEF Receive, Handshake, Refuse, Decode, buffers
    <2> QED
      BY <1>2, <1>3, <2>1, ReaderWrites
  <1>9. ASSUME NEW e \in Ends, Keepalive(e) PROVE torn'[o] \cap {Main, Reader} # {}
    <2>1. Prepare(e, Main) \/ torn' = torn
      BY <1>9 DEF Keepalive, buffers
    <2> QED
      BY <1>2, <1>3, <2>1, ReaderWrites
  <1>10. ASSUME NEW e \in Ends, NEW s \in Senders, SendBegin(e, s)
         PROVE  torn'[o] \cap {Main, Reader} # {}
    BY <1>3, <1>10 DEF SendBegin, Writers
  <1>11. ASSUME NEW e \in Ends, NEW s \in Senders, SendEnd(e, s) PROVE torn' = torn
    BY <1>11 DEF SendEnd, TransmitOk, TransmitFails
  <1> QED
    BY <1>2, <1>4, <1>5, <1>6, <1>7, <1>8, <1>9, <1>10, <1>11 DEF Next

\* With any number of senders, only keep-alives and the answers to them break into
\* what another thread is writing.
THEOREM LockHolds == Spec => []TornByKeepalives
  <1>1. Init => TypeInv /\ TornByKeepalives
    BY TypeInit DEF Init, TornByKeepalives
  <1> QED
    BY <1>1, TypeNext, TornNext, PTL DEF Spec
-----------------------------------------------------------------------------
(* What is on its way from an end, in its buffers or on the wire.             *)

Elements(q) == {q[n] : n \in DOMAIN q}

OnItsWay(e) == Elements(pending[e]) \cup Elements(awaiting[e]) \cup Elements(wire[Other(e)])

LEMMA ElementFacts ==
  ASSUME NEW q \in Seq(Frames), NEW r \in Seq(Frames), NEW f \in Frames
  PROVE  /\ Elements(Append(q, f)) = Elements(q) \cup {f}
         /\ Elements(<<f>>) = {f}
         /\ Elements(<<>>) = {}
         /\ Elements(q \o r) = Elements(q) \cup Elements(r)
         /\ q # <<>> => Head(q) \in Elements(q) /\ Elements(Tail(q)) \subseteq Elements(q)
         /\ Elements(q) \subseteq Frames
  <1>1. Elements(Append(q, f)) = Elements(q) \cup {f}
    <2>1. /\ \A n \in DOMAIN q : n \in DOMAIN Append(q, f) /\ Append(q, f)[n] = q[n]
          /\ Len(q) + 1 \in DOMAIN Append(q, f) /\ Append(q, f)[Len(q) + 1] = f
          /\ \A n \in DOMAIN Append(q, f) : n \in DOMAIN q \/ n = Len(q) + 1
      OBVIOUS
    <2> QED
      BY <2>1 DEF Elements
  <1>2. Elements(<<f>>) = {f} /\ Elements(<<>>) = {}
    BY DEF Elements
  <1>3. Elements(q \o r) = Elements(q) \cup Elements(r)
    <2> DEFINE c == q \o r
    <2>1. /\ \A n \in DOMAIN q : n \in DOMAIN c /\ c[n] = q[n]
          /\ \A n \in DOMAIN r : Len(q) + n \in DOMAIN c /\ c[Len(q) + n] = r[n]
          /\ \A n \in DOMAIN c : n \in DOMAIN q \/ n - Len(q) \in DOMAIN r
      OBVIOUS
    <2>2. \A n \in DOMAIN c : n \in Nat /\ Len(q) + (n - Len(q)) = n
      OBVIOUS
    <2> HIDE DEF c
    <2>3. \A n \in DOMAIN c : c[n] \in Elements(q) \cup Elements(r)
      <3> TAKE n \in DOMAIN c
      <3>1. CASE n \in DOMAIN q
        BY <2>1, <3>1 DEF Elements
      <3>2. CASE n - Len(q) \in DOMAIN r
        <4>1. c[n] = r[n - Len(q)]
          BY <2>1, <2>2, <3>2
        <4> QED
          BY <3>2, <4>1 DEF Elements
      <3> QED
        BY <2>1, <3>1, <3>2
    <2>4. Elements(c) \subseteq Elements(q) \cup Elements(r)
      BY <2>3 DEF Elements
    <2>5. Elements(q) \subseteq Elements(c) /\ Elements(r) \subseteq Elements(c)
      BY <2>1 DEF Elements
    <2> QED
      BY <2>4, <2>5 DEF c
  <1>4. ASSUME q # <<>>
        PROVE  Head(q) \in Elements(q) /\ Elements(Tail(q)) \subseteq Elements(q)
    <2>1. /\ 1 \in DOMAIN q /\ Head(q) = q[1]
          /\ \A n \in DOMAIN Tail(q) : n + 1 \in DOMAIN q /\ Tail(q)[n] = q[n + 1]
      BY <1>4
    <2> QED
      BY <2>1 DEF Elements
  <1>5. Elements(q) \subseteq Frames
    BY DEF Elements
  <1> QED
    BY <1>1, <1>2, <1>3, <1>4, <1>5

LEMMA AppendElements == \A q \in Seq(Frames), f \in Frames :
                          Elements(Append(q, f)) = Elements(q) \cup {f}
  BY ElementFacts
LEMMA ConcatElements == \A q, r \in Seq(Frames) :
                          Elements(q \o r) = Elements(q) \cup Elements(r)
  BY ElementFacts, FrameTypes
LEMMA TailElements == \A q \in Seq(Frames) \ {<<>>} :
                          Head(q) \in Elements(q) /\ Elements(Tail(q)) \subseteq Elements(q)
  BY ElementFacts, FrameTypes
LEMMA SmallElements == Elements(<<>>) = {} /\ \A f \in Frames : Elements(<<f>>) = {f}
  BY DEF Elements

LEMMA TransmitAdds ==
  ASSUME TypeInv, NEW e \in Ends, NEW w \in Writers, NEW f \in Frames,
         TransmitOk(e, w, f) \/ TransmitFails(e, w), UNCHANGED wire, NEW o \in Ends
  PROVE  OnItsWay(o)' \subseteq OnItsWay(o) \cup (IF o = e THEN {f} ELSE {})
  <1>1. pending[e] \in Seq(Frames) /\ awaiting[e] \in Seq(Frames) /\ BufferTypes
    BY TypeParts DEF TypeInv, BufferTypes
  <1>2. CASE o # e
    <2>1. pending'[o] = pending[o] /\ awaiting'[o] = awaiting[o]
      BY <1>1, <1>2 DEF TransmitOk, TransmitFails, BufferTypes
    <2> QED
      BY <2>1 DEF OnItsWay
  <1>3. CASE o = e
    <2>1. \/ pending'[e] = <<f>> /\ awaiting'[e] = awaiting[e]
          \/ pending'[e] = pending[e] /\ awaiting'[e] = Append(awaiting[e], f)
          \/ pending'[e] = pending[e] /\ awaiting'[e] = awaiting[e]
      BY <1>1 DEF TransmitOk, TransmitFails, BufferTypes
    <2>2. /\ Elements(<<f>>) = {f}
          /\ Elements(Append(awaiting[e], f)) = Elements(awaiting[e]) \cup {f}
      BY <1>1, SmallElements, AppendElements
    <2>3. Elements(pending'[e]) \cup Elements(awaiting'[e])
            \subseteq Elements(pending[e]) \cup Elements(awaiting[e]) \cup {f}
      BY <2>1, <2>2
    <2> QED
      BY <1>3, <2>3 DEF OnItsWay
  <1> QED
    BY <1>2, <1>3

\* Only the end of a send puts data on its way.
LEMMA NothingFromNothing ==
  ASSUME TypeInv, NEW o \in Ends,
         \/ Break \/ UNCHANGED vars
         \/ \E e \in Ends :
              \/ Connected(e) \/ Overloaded(e) \/ Secure(e) \/ Receive(e) \/ Answer(e)
              \/ Closed(e) \/ Sent(e) \/ SendAborted(e) \/ Keepalive(e) \/ Probe(e)
              \/ \E s \in Senders : SendBegin(e, s)
  PROVE  \A f \in OnItsWay(o)' : f \in OnItsWay(o) \/ f.kind # "data"
  <1> DEFINE Goal == \A f \in OnItsWay(o)' : f \in OnItsWay(o) \/ f.kind # "data"
  <1>1. /\ BufferTypes /\ NetworkTypes /\ Other(o) \in Ends
        /\ pending[o] \in Seq(Frames) /\ awaiting[o] \in Seq(Frames)
        /\ wire[Other(o)] \in Seq(Frames)
    BY TypeParts, Others DEF TypeInv, BufferTypes, NetworkTypes
  <1>2. /\ \A k \in {"initial", "busy", "probe", "answer"} :
             Control(k) \in Frames /\ Control(k).kind # "data"
    BY FrameTypes DEF Control
  <1>3. CASE UNCHANGED <<pending, awaiting, wire>>
    BY <1>3 DEF OnItsWay
  <1>4. ASSUME NEW e \in Ends, Connected(e) PROVE Goal
    <2>1. UNCHANGED <<awaiting, wire>> /\ pending' = [pending EXCEPT ![e] = <<Control("initial")>>]
      BY <1>4 DEF Connected
    <2>2. Elements(pending'[o]) \subseteq Elements(pending[o]) \cup {Control("initial")}
      BY <1>1, <1>2, <2>1, SmallElements DEF BufferTypes
    <2> QED
      BY <1>2, <2>1, <2>2 DEF OnItsWay
  <1>5. ASSUME NEW e \in Ends, Overloaded(e) PROVE Goal
    <2>1. UNCHANGED <<pending, awaiting>>
          /\ wire' = [wire EXCEPT ![Other(e)] = Append(@, Control("busy"))]
      BY <1>5 DEF Overloaded, buffers
    <2>2. Elements(wire'[Other(o)]) \subseteq Elements(wire[Other(o)]) \cup {Control("busy")}
      <3>1. wire'[Other(o)] \in {wire[Other(o)], Append(wire[Other(o)], Control("busy"))}
        BY <1>1, <2>1 DEF NetworkTypes
      <3> QED
        BY <1>1, <1>2, <3>1, AppendElements
    <2> QED
      BY <1>2, <2>1, <2>2 DEF OnItsWay
  <1>6. ASSUME NEW e \in Ends, Receive(e) PROVE Goal
    <2>1. UNCHANGED <<pending, awaiting>> /\ wire[e] # <<>>
          /\ wire' = [wire EXCEPT ![e] = Tail(@)]
      BY <1>6 DEF Receive, Handshake, Refuse, Decode, Prepare, buffers
    <2>2. Elements(wire'[Other(o)]) \subseteq Elements(wire[Other(o)])
      <3>1. CASE e = Other(o)
        <4>1. wire'[Other(o)] = Tail(wire[Other(o)]) /\ wire[Other(o)] # <<>>
          BY <1>1, <2>1, <3>1 DEF NetworkTypes
        <4> QED
          BY <1>1, <4>1, TailElements
      <3>2. CASE e # Other(o)
        BY <1>1, <2>1, <3>2 DEF NetworkTypes
      <3> QED
        BY <3>1, <3>2
    <2> QED
      BY <2>1, <2>2 DEF OnItsWay
  <1>7. ASSUME NEW e \in Ends, NEW w \in Writers, NEW k \in {"probe", "answer"},
               TransmitOk(e, w, Control(k)) \/ TransmitFails(e, w), UNCHANGED wire
        PROVE  Goal
    BY <1>2, <1>7, TransmitAdds
  <1>8. ASSUME NEW e \in Ends, Sent(e) PROVE Goal
    <2>1. /\ wire' = [wire EXCEPT ![Other(e)] = @ \o pending[e]]
          /\ \/ pending' = [pending EXCEPT ![e] = awaiting[e]]
             \/ pending' = [pending EXCEPT ![e] = <<>>]
          /\ \/ awaiting' = [awaiting EXCEPT ![e] = <<>>]
             \/ awaiting' = awaiting
      BY <1>8 DEF Sent, Batch
    <2>2. CASE o = e
      <3>1. wire'[Other(o)] = wire[Other(o)] \o pending[o]
        BY <1>1, <2>1, <2>2 DEF NetworkTypes
      <3>2. Elements(wire'[Other(o)]) = Elements(wire[Other(o)]) \cup Elements(pending[o])
        BY <1>1, <3>1, ConcatElements
      <3>3. pending'[o] \in {awaiting[o], <<>>} /\ awaiting'[o] \in {awaiting[o], <<>>}
        BY <1>1, <2>1, <2>2 DEF BufferTypes
      <3>4. Elements(<<>>) = {}
        BY SmallElements
      <3> QED
        BY <3>2, <3>3, <3>4 DEF OnItsWay
    <2>3. CASE o # e
      <3>1. Other(o) # Other(e)
        BY <2>3, Others
      <3>2. pending'[o] = pending[o] /\ awaiting'[o] = awaiting[o]
            /\ wire'[Other(o)] = wire[Other(o)]
        BY <1>1, <2>1, <2>3, <3>1 DEF BufferTypes, NetworkTypes
      <3> QED
        BY <3>2 DEF OnItsWay
    <2> QED
      BY <2>2, <2>3
  <1>9. ASSUME NEW e \in Ends,
               \/ Secure(e) \/ Closed(e) \/ SendAborted(e) \/ Keepalive(e)
               \/ \E s \in Senders : SendBegin(e, s)
        PROVE  UNCHANGED <<pending, awaiting, wire>>
    BY <1>9 DEF Secure, Closed, SendAborted, Keepalive, SendBegin, Prepare, buffers
  <1>10. ASSUME NEW e \in Ends, Answer(e) \/ Probe(e) PROVE Goal
    <2>1. \E w \in Writers, k \in {"probe", "answer"} :
            (TransmitOk(e, w, Control(k)) \/ TransmitFails(e, w)) /\ UNCHANGED wire
      BY <1>10, ReaderWrites DEF Answer, Probe
    <2> QED
      BY <1>7, <2>1
  <1>11. CASE Break \/ UNCHANGED vars
    BY <1>3, <1>11 DEF Break, vars, buffers
  <1> QED
    BY <1>3, <1>4, <1>5, <1>6, <1>8, <1>9, <1>10, <1>11
-----------------------------------------------------------------------------
(* Refinement. A data frame that is on its way carries what was said under its *)
(* nonce; an end that has not given up has heard as much as its nonce counts.  *)

Genuine(o) ==
  /\ outbound[o] = Len(said[o])
  /\ state[o] # "retired" => inbound[o] = Len(got[o])
  /\ \A f \in OnItsWay(o) :
       f.kind = "data" => f.nonce \in 1 .. Len(said[o]) /\ f.payload = said[o][f.nonce]

FifoInv == TypeInv /\ \A o \in Ends : Genuine(o)

LEMMA FifoInit == Init => FifoInv
  <1> SUFFICES ASSUME Init, NEW o \in Ends PROVE Genuine(o)
    BY TypeInit DEF FifoInv
  <1>1. Other(o) \in Ends
    BY Others
  <1> QED
    BY <1>1, SmallElements DEF Init, Genuine, OnItsWay

LEMMA NobodyRevives ==
  ASSUME TypeInv, [Next]_vars, NEW o \in Ends, state[o] = "retired"
  PROVE  state'[o] = "retired"
  <1>1. FateTypes /\ state \in [Ends -> {"connecting", "pending", "securing", "secured", "retired"}]
    BY TypeParts DEF TypeInv, FateTypes
  <1>2. CASE UNCHANGED state
    BY <1>2
  <1>3. ASSUME NEW e \in Ends, Connected(e) \/ Overloaded(e) \/ Secure(e) \/ Closed(e)
        PROVE  state'[o] = "retired"
    BY <1>1, <1>3 DEF Connected, Overloaded, Secure, Closed, Disconnect
  <1>4. ASSUME NEW e \in Ends, Answer(e) PROVE state'[o] = "retired"
    BY <1>1, <1>4 DEF Answer, Disconnect
  <1>5. ASSUME NEW e \in Ends, Receive(e) PROVE state'[o] = "retired"
    <2>1. \/ UNCHANGED state \/ state' = [state EXCEPT ![e] = "retired"]
          \/ state[e] = "pending" /\ state' = [state EXCEPT ![e] = "securing"]
      BY <1>5 DEF Receive, Handshake, Refuse, Decode, Disconnect, fate
    <2> QED
      BY <1>1, <2>1
  <1>6. ASSUME NEW e \in Ends, \/ Sent(e) \/ SendAborted(e) \/ Keepalive(e) \/ Probe(e)
                               \/ \E s \in Senders : SendBegin(e, s) \/ SendEnd(e, s)
        PROVE  UNCHANGED state
    BY <1>6 DEF Sent, SendAborted, Keepalive, Probe, SendBegin, SendEnd, fate
  <1>7. CASE Break \/ UNCHANGED vars
    BY <1>2, <1>7 DEF Break, vars, fate
  <1> QED
    BY <1>2, <1>3, <1>4, <1>5, <1>6, <1>7 DEF Next

LEMMA FifoStay ==
  ASSUME FifoInv, [Next]_vars, UNCHANGED nonces, NEW o \in Ends,
         \A f \in OnItsWay(o)' : f \in OnItsWay(o) \/ f.kind # "data"
  PROVE  Genuine(o)'
  <1>1. state'[o] # "retired" => state[o] # "retired"
    BY NobodyRevives DEF FifoInv
  <1> QED
    BY <1>1 DEF FifoInv, Genuine, nonces

LEMMA FifoReceive ==
  ASSUME FifoInv, NEW e \in Ends, Receive(e)
  PROVE  /\ \A o \in Ends : Genuine(o)'
         /\ Fifo!Hear(e) \/ UNCHANGED <<said, got>>
  <1> DEFINE f == Head(wire[e])
             o == Other(e)
  <1>1. /\ TypeInv /\ NonceTypes /\ FateTypes /\ BufferTypes /\ NetworkTypes
        /\ o \in Ends /\ Other(o) = e /\ o # e
        /\ \A x \in Ends : Genuine(x)
    BY TypeParts, Others DEF TypeInv, FifoInv
  <1>2. \A x \in Ends : \A g \in OnItsWay(x)' : g \in OnItsWay(x) \/ g.kind # "data"
    BY <1>1, NothingFromNothing
  <1>3. f \in OnItsWay(o)
    <2>1. wire[e] \in Seq(Frames) \ {<<>>}
      BY <1>1 DEF NetworkTypes, Receive
    <2> QED
      BY <1>1, <2>1, TailElements DEF OnItsWay
  <1>4. [Next]_vars
    BY DEF Next
  <1>5. \/ UNCHANGED nonces
        \/ f.kind = "data" /\ state[e] = "secured" /\ Decode(e, f)
    BY DEF Receive, Handshake, Refuse
  <1> HIDE DEF f, o
  <1>6. CASE UNCHANGED nonces
    BY <1>2, <1>4, <1>6, FifoStay DEF nonces
  <1>7. CASE f.kind = "data" /\ state[e] = "secured" /\ Decode(e, f)
    <2>1. /\ inbound' = [inbound EXCEPT ![e] = @ + 1] /\ UNCHANGED <<outbound, said>>
          /\ inbound[e] = Len(got[e]) /\ got[e] \in Seq(Messages)
      BY <1>1, <1>7 DEF Decode, Genuine, NonceTypes
    <2>2. f.nonce \in 1 .. Len(said[o]) /\ f.payload = said[o][f.nonce]
      BY <1>1, <1>3, <1>7 DEF Genuine
    <2>3. CASE Authenticates(e, f)
      <3>1. /\ f.nonce = Len(got[e]) + 1
            /\ got' = [got EXCEPT ![e] = Append(@, f.payload)]
            /\ UNCHANGED state
        BY <1>7, <2>1, <2>3 DEF Decode, Authenticates
      <3>2. Fifo!Hear(e)
        BY <1>1, <2>1, <2>2, <3>1 DEF Fifo!Hear, o, NonceTypes
      <3>3. \A x \in Ends : state'[x] # "retired" => inbound'[x] = Len(got'[x])
        <4> TAKE x \in Ends
        <4>1. CASE x = e
          BY <1>1, <2>1, <3>1, <4>1 DEF NonceTypes
        <4>2. CASE x # e
          BY <1>1, <2>1, <3>1, <4>2 DEF NonceTypes, Genuine
        <4> QED
          BY <4>1, <4>2
      <3>4. \A x \in Ends : Genuine(x)'
        BY <1>1, <1>2, <2>1, <3>3 DEF Genuine
      <3> QED
        BY <3>2, <3>4
    <2>4. CASE ~Authenticates(e, f)
      <3>1. state' = [state EXCEPT ![e] = "retired"] /\ UNCHANGED got
        BY <1>7, <2>4 DEF Decode, Disconnect
      <3>2. \A x \in Ends : state'[x] # "retired" => inbound'[x] = Len(got'[x])
        BY <1>1, <2>1, <3>1 DEF FateTypes, NonceTypes, Genuine
      <3>3. \A x \in Ends : Genuine(x)'
        BY <1>1, <1>2, <2>1, <3>2 DEF Genuine
      <3> QED
        BY <2>1, <3>1, <3>3
    <2> QED
      BY <2>3, <2>4
  <1> QED
    BY <1>5, <1>6, <1>7 DEF nonces

LEMMA FifoSend ==
  ASSUME FifoInv, NEW e \in Ends, NEW s \in Senders, SendEnd(e, s)
  PROVE  (\A o \in Ends : Genuine(o)') /\ Fifo!Say(e)
  <1> DEFINE n == outbound[e] + 1
             m == Script[e][n]
             f == Data(n, m)
  <1>1. /\ TypeInv /\ NonceTypes /\ BufferTypes /\ Ready /\ \A o \in Ends : Genuine(o)
        /\ s \in Writers /\ writing[e] = s /\ Script[e] \in Seq(Messages)
        /\ outbound[e] \in Nat /\ outbound[e] = Len(said[e]) /\ said[e] \in Seq(Messages)
    BY TypeParts, LinkAssumption
    DEF FifoInv, TypeInv, SendEnd, Busy, Writers, NonceTypes, Genuine
  <1>2. n \in Nat \ {0} /\ n \in 1 .. Len(Script[e])
    BY <1>1 DEF Ready
  <1>3. m \in Messages
    BY <1>1, <1>2
  <1>4. f \in Frames /\ f.nonce = n /\ f.payload = m
    BY <1>2, <1>3, FrameTypes DEF Data
  <1>5. /\ TransmitOk(e, s, f) \/ TransmitFails(e, s)
        /\ UNCHANGED <<fate, wire>> /\ UNCHANGED <<inbound, got>>
        /\ outbound' = [outbound EXCEPT ![e] = n]
        /\ said' = [said EXCEPT ![e] = Append(said[e], m)]
    BY DEF SendEnd, Encode
  <1> HIDE DEF m, f
  <1>6. Fifo!Say(e)
    BY <1>3, <1>5 DEF Fifo!Say
  <1>7. /\ Len(Append(said[e], m)) = n /\ Append(said[e], m)[n] = m
        /\ \A k \in 1 .. Len(said[e]) : Append(said[e], m)[k] = said[e][k]
        /\ 1 .. Len(said[e]) \subseteq 1 .. n /\ n \in 1 .. n
    BY <1>1, <1>3
  <1>8. ASSUME NEW o \in Ends PROVE Genuine(o)'
    <2>1. OnItsWay(o)' \subseteq OnItsWay(o) \cup (IF o = e THEN {f} ELSE {})
      BY <1>1, <1>4, <1>5, TransmitAdds
    <2>2. state' = state
      BY <1>5 DEF fate
    <2>3. CASE o = e
      <3>1. said'[o] = Append(said[e], m) /\ outbound'[o] = n
        BY <1>1, <1>5, <2>3 DEF NonceTypes
      <3>2. \A g \in OnItsWay(o)' :
              g.kind = "data" => g.nonce \in 1 .. n /\ g.payload = Append(said[e], m)[g.nonce]
        BY <1>1, <1>4, <1>7, <2>1, <2>3 DEF Genuine
      <3> QED
        BY <1>1, <1>5, <1>7, <2>2, <3>1, <3>2 DEF Genuine
    <2>4. CASE o # e
      <3>1. said'[o] = said[o] /\ outbound'[o] = outbound[o]
        BY <1>1, <1>5, <2>4 DEF NonceTypes
      <3> QED
        BY <1>1, <1>5, <2>1, <2>2, <2>4, <3>1 DEF Genuine
    <2> QED
      BY <2>3, <2>4
  <1> QED
    BY <1>6, <1>8

LEMMA FifoNext == FifoInv /\ [Next]_vars => FifoInv' /\ [Fifo!Next]_(Fifo!vars)
  <1> SUFFICES ASSUME FifoInv, [Next]_vars PROVE FifoInv' /\ [Fifo!Next]_(Fifo!vars)
    OBVIOUS
  <1>1. TypeInv /\ TypeInv'
    BY TypeNext DEF FifoInv
  <1>2. ASSUME NEW e \in Ends, Receive(e) PROVE FifoInv' /\ [Fifo!Next]_(Fifo!vars)
    BY <1>1, <1>2, FifoReceive DEF FifoInv, Fifo!Next, Fifo!vars
  <1>3. ASSUME NEW e \in Ends, NEW s \in Senders, SendEnd(e, s)
        PROVE  FifoInv' /\ [Fifo!Next]_(Fifo!vars)
    BY <1>1, <1>3, FifoSend DEF FifoInv, Fifo!Next, Fifo!vars
  <1>4. ASSUME \/ Break \/ UNCHANGED vars
               \/ \E e \in Ends :
                    \/ Connected(e) \/ Overloaded(e) \/ Secure(e) \/ Answer(e)
                    \/ Closed(e) \/ Sent(e) \/ SendAborted(e) \/ Keepalive(e) \/ Probe(e)
                    \/ \E s \in Senders : SendBegin(e, s)
        PROVE  FifoInv' /\ [Fifo!Next]_(Fifo!vars)
    <2>1. UNCHANGED nonces
      BY <1>4 DEF Break, vars, Connected, Overloaded, Secure, Answer, Closed, Sent,
                  SendAborted, Keepalive, Probe, SendBegin
    <2>2. \A o \in Ends : \A f \in OnItsWay(o)' : f \in OnItsWay(o) \/ f.kind # "data"
      BY <1>1, <1>4, NothingFromNothing
    <2>3. \A o \in Ends : Genuine(o)'
      BY <2>1, <2>2, FifoStay
    <2> QED
      BY <1>1, <2>1, <2>3 DEF FifoInv, Fifo!vars, nonces
  <1> QED
    BY <1>2, <1>3, <1>4 DEF Next

\* What one end decodes is what the other has encoded, in order and without gaps,
\* whatever fails and whatever overlaps.
THEOREM Implementation == Spec => ImplementsFifo
  <1>1. Init => FifoInv /\ Fifo!Init
    BY FifoInit DEF Init, Fifo!Init
  <1> QED
    BY <1>1, FifoNext, PTL DEF Spec, ImplementsFifo, Fifo!Spec
-----------------------------------------------------------------------------
(* Order. As long as no send of an end has failed and nothing has broken into  *)
(* its buffers, the data on its way bears the nonces that the other end waits   *)
(* for, in that order: first the wire, then `pending`, then `awaiting`.        *)

Consecutive(q, i, j) ==
  /\ \A m, n \in DOMAIN q :
       m < n /\ q[m].kind = "data" /\ q[n].kind = "data" => q[m].nonce < q[n].nonce
  /\ \A n \in DOMAIN q : q[n].kind = "data" => q[n].nonce \in i + 1 .. j
  /\ \A k \in i + 1 .. j : \E n \in DOMAIN q : q[n].kind = "data" /\ q[n].nonce = k

LEMMA ConsecutiveAppend ==
  ASSUME NEW q \in Seq(Frames), NEW f \in Frames, NEW i \in Nat, NEW j \in Nat,
         Consecutive(q, i, j), i <= j
  PROVE  /\ f.kind # "data" => Consecutive(Append(q, f), i, j)
         /\ f.kind = "data" /\ f.nonce = j + 1 => Consecutive(Append(q, f), i, j + 1)
  <1> DEFINE a == Append(q, f)
  <1>1. /\ DOMAIN a = 1 .. Len(q) + 1 /\ DOMAIN q = 1 .. Len(q) /\ Len(q) \in Nat
        /\ a[Len(q) + 1] = f /\ \A n \in 1 .. Len(q) : a[n] = q[n]
    OBVIOUS
  <1> HIDE DEF a
  <1>2. \A n \in DOMAIN a : n \in DOMAIN q \/ n = Len(q) + 1
    BY <1>1
  <1>3. ASSUME f.kind # "data" PROVE Consecutive(a, i, j)
    <2>1. \A n \in DOMAIN a : a[n].kind = "data" => n \in DOMAIN q /\ a[n] = q[n]
      BY <1>1, <1>2, <1>3
    <2>2. \A n \in DOMAIN q : n \in DOMAIN a /\ a[n] = q[n]
      BY <1>1
    <2> QED
      BY <2>1, <2>2 DEF Consecutive
  <1>4. ASSUME f.kind = "data", f.nonce = j + 1 PROVE Consecutive(a, i, j + 1)
    <2>1. \A n \in DOMAIN a : a[n].kind = "data" => a[n].nonce \in i + 1 .. j + 1
      BY <1>1, <1>2, <1>4 DEF Consecutive
    <2>2. \A m, n \in DOMAIN a :
            m < n /\ a[m].kind = "data" /\ a[n].kind = "data" => a[m].nonce < a[n].nonce
      <3> SUFFICES ASSUME NEW m \in DOMAIN a, NEW n \in DOMAIN a, m < n,
                          a[m].kind = "data", a[n].kind = "data"
                   PROVE  a[m].nonce < a[n].nonce
        OBVIOUS
      <3>1. m \in DOMAIN q /\ a[m] = q[m] /\ q[m].nonce \in i + 1 .. j
        BY <1>1, <1>2 DEF Consecutive
      <3>2. CASE n = Len(q) + 1
        BY <1>1, <1>4, <3>1, <3>2
      <3>3. CASE n \in DOMAIN q
        BY <1>1, <3>1, <3>3 DEF Consecutive
      <3> QED
        BY <1>2, <3>2, <3>3
    <2>3. \A k \in i + 1 .. j + 1 : \E n \in DOMAIN a : a[n].kind = "data" /\ a[n].nonce = k
      <3> TAKE k \in i + 1 .. j + 1
      <3>1. CASE k = j + 1
        BY <1>1, <1>4, <3>1
      <3>2. CASE k \in i + 1 .. j
        BY <1>1, <3>2, SMTT(30) DEF Consecutive
      <3> QED
        BY <3>1, <3>2
    <2> QED
      BY <2>1, <2>2, <2>3 DEF Consecutive
  <1> QED
    BY <1>3, <1>4 DEF a

LEMMA ConsecutiveTail ==
  ASSUME NEW q \in Seq(Frames), q # <<>>, NEW i \in Nat, NEW j \in Nat, Consecutive(q, i, j)
  PROVE  /\ Head(q).kind # "data" => Consecutive(Tail(q), i, j)
         /\ Head(q).kind = "data" =>
              Head(q).nonce = i + 1 /\ i + 1 <= j /\ Consecutive(Tail(q), i + 1, j)
  <1> DEFINE t == Tail(q)
             h == Head(q)
  <1>1. /\ DOMAIN q = 1 .. Len(q) /\ Len(q) \in Nat \ {0} /\ DOMAIN t = 1 .. Len(q) - 1
        /\ \A n \in DOMAIN t : t[n] = q[n + 1] /\ n + 1 \in DOMAIN q /\ n \in Nat
        /\ h = q[1] /\ 1 \in DOMAIN q
    OBVIOUS
  <1> HIDE DEF t, h
  <1>0. \A n \in DOMAIN q : n # 1 => n - 1 \in DOMAIN t /\ t[n - 1] = q[n] /\ 1 < n
    <2> SUFFICES ASSUME NEW n \in DOMAIN q, n # 1
                 PROVE  n - 1 \in DOMAIN t /\ t[n - 1] = q[n] /\ 1 < n
      OBVIOUS
    <2>1. n \in Nat /\ 1 < n /\ n - 1 \in 1 .. Len(q) - 1 /\ (n - 1) + 1 = n
      BY <1>1
    <2> QED
      BY <1>1, <2>1
  <1>2. \A m, n \in DOMAIN t :
          m < n /\ t[m].kind = "data" /\ t[n].kind = "data" => t[m].nonce < t[n].nonce
    BY <1>1, SMTT(30) DEF Consecutive
  <1>3. ASSUME h.kind # "data" PROVE Consecutive(t, i, j)
    <2>1. \A n \in DOMAIN t : t[n].kind = "data" => t[n].nonce \in i + 1 .. j
      BY <1>1 DEF Consecutive
    <2>2. \A k \in i + 1 .. j : \E n \in DOMAIN t : t[n].kind = "data" /\ t[n].nonce = k
      <3> TAKE k \in i + 1 .. j
      <3>1. PICK n \in DOMAIN q : q[n].kind = "data" /\ q[n].nonce = k
        BY DEF Consecutive
      <3> QED
        BY <1>0, <1>1, <1>3, <3>1
    <2> QED
      BY <1>2, <2>1, <2>2 DEF Consecutive
  <1>4. ASSUME h.kind = "data"
        PROVE  h.nonce = i + 1 /\ i + 1 <= j /\ Consecutive(t, i + 1, j)
    <2>1. h.nonce \in i + 1 .. j
      BY <1>1, <1>4 DEF Consecutive
    <2>2. PICK n \in DOMAIN q : q[n].kind = "data" /\ q[n].nonce = i + 1
      BY <2>1 DEF Consecutive
    <2>3. h.nonce = i + 1
      <3>1. CASE n = 1
        BY <1>1, <2>2, <3>1
      <3>2. CASE n # 1
        <4>1. h.nonce < i + 1
          BY <1>0, <1>1, <1>4, <2>2, <3>2 DEF Consecutive
        <4> QED
          BY <2>1, <4>1
      <3> QED
        BY <3>1, <3>2
    <2>4. \A m \in DOMAIN t : t[m].kind = "data" => t[m].nonce \in i + 2 .. j
      <3> SUFFICES ASSUME NEW m \in DOMAIN t, t[m].kind = "data" PROVE t[m].nonce \in i + 2 .. j
        OBVIOUS
      <3>1. m + 1 \in DOMAIN q /\ t[m] = q[m + 1] /\ 1 < m + 1
        BY <1>1
      <3>2. h.nonce < q[m + 1].nonce /\ q[m + 1].nonce \in i + 1 .. j
        BY <1>1, <1>4, <3>1 DEF Consecutive
      <3> QED
        BY <2>3, <3>1, <3>2
    <2>5. \A k \in i + 2 .. j : \E m \in DOMAIN t : t[m].kind = "data" /\ t[m].nonce = k
      <3> TAKE k \in i + 2 .. j
      <3>1. PICK m \in DOMAIN q : q[m].kind = "data" /\ q[m].nonce = k
        BY DEF Consecutive
      <3> QED
        BY <1>0, <1>1, <2>3, <3>1, SMTT(30)
    <2> QED
      BY <1>2, <2>1, <2>3, <2>4, <2>5 DEF Consecutive
  <1> QED
    BY <1>3, <1>4 DEF t, h

\* The frames on their way from an end, in the order in which they arrive.
Chain(o) == (wire[Other(o)] \o pending[o]) \o awaiting[o]

LEMMA ChainFacts ==
  ASSUME NEW w \in Seq(Frames), NEW p \in Seq(Frames), NEW a \in Seq(Frames),
         NEW f \in Frames
  PROVE  /\ (w \o p) \o a \in Seq(Frames)
         /\ (w \o p) \o Append(a, f) = Append((w \o p) \o a, f)
         /\ (w \o <<f>>) \o <<>> = Append((w \o <<>>) \o <<>>, f)
         /\ (Append(w, f) \o <<>>) \o <<>> = Append((w \o <<>>) \o <<>>, f)
         /\ ((w \o p) \o a) \o <<>> = (w \o p) \o a
  <1> DEFINE T == Seq(Frames)
  <1>1. w \o p \in T /\ (w \o p) \o a \in T /\ <<f>> \in T /\ <<>> \in T
    BY ConcatProperties, EmptySeq
  <1>2. \A q \in T : q \o <<>> = q /\ Append(q, f) = q \o <<f>>
    BY ConcatEmptySeq, AppendIsConcat
  <1>3. (w \o p) \o Append(a, f) = Append((w \o p) \o a, f)
    BY <1>1, <1>2, ConcatAssociative
  <1>4. /\ (w \o <<f>>) \o <<>> = Append((w \o <<>>) \o <<>>, f)
        /\ (Append(w, f) \o <<>>) \o <<>> = Append((w \o <<>>) \o <<>>, f)
    <2>1. w \o <<f>> \in T /\ Append(w, f) \in T
      BY <1>1, ConcatProperties
    <2> QED
      BY <1>1, <1>2, <2>1
  <1>5. ((w \o p) \o a) \o <<>> = (w \o p) \o a
    BY <1>1, <1>2
  <1> QED
    BY <1>1, <1>3, <1>4, <1>5

LEMMA ChainAppend == \A w, p, a \in Seq(Frames), f \in Frames :
                       (w \o p) \o Append(a, f) = Append((w \o p) \o a, f)
  BY ChainFacts

LEMMA ConcatTail ==
  \A u, v \in Seq(Frames) :
    u # <<>> => Tail(u) \o v = Tail(u \o v) /\ Head(u) = Head(u \o v) /\ u \o v # <<>>
  <1> SUFFICES ASSUME NEW u \in Seq(Frames), NEW v \in Seq(Frames), u # <<>>
               PROVE  /\ Tail(u) \o v = Tail(u \o v) /\ Head(u) = Head(u \o v)
                      /\ u \o v # <<>>
    OBVIOUS
  <1>1. /\ Tail(u) \o v \in Seq(Frames) /\ u \o v \in Seq(Frames) /\ u \o v # <<>>
        /\ Tail(u \o v) \in Seq(Frames)
    OBVIOUS
  <1>2. /\ Len(Tail(u) \o v) = Len(Tail(u \o v))
        /\ \A n \in 1 .. Len(Tail(u) \o v) : (Tail(u) \o v)[n] = Tail(u \o v)[n]
    BY <1>1
  <1>3. Tail(u) \o v = Tail(u \o v)
    BY <1>1, <1>2, SeqEqual
  <1> QED
    BY <1>1, <1>3

LEMMA ChainTail ==
  \A w, p, a \in Seq(Frames) :
    w # <<>> => /\ (w \o p) \o a \in Seq(Frames)
                /\ (Tail(w) \o p) \o a = Tail((w \o p) \o a)
                /\ Head(w) = Head((w \o p) \o a) /\ (w \o p) \o a # <<>>
  <1> SUFFICES ASSUME NEW w \in Seq(Frames), NEW p \in Seq(Frames), NEW a \in Seq(Frames),
                      w # <<>>
               PROVE  /\ (w \o p) \o a \in Seq(Frames)
                      /\ (Tail(w) \o p) \o a = Tail((w \o p) \o a)
                      /\ Head(w) = Head((w \o p) \o a) /\ (w \o p) \o a # <<>>
    OBVIOUS
  <1>1. w \o p \in Seq(Frames) /\ (w \o p) \o a \in Seq(Frames)
    OBVIOUS
  <1>2. Tail(w) \o p = Tail(w \o p) /\ Head(w) = Head(w \o p) /\ w \o p # <<>>
    BY ConcatTail, Zenon
  <1>3. /\ Tail(w \o p) \o a = Tail((w \o p) \o a)
        /\ Head(w \o p) = Head((w \o p) \o a) /\ (w \o p) \o a # <<>>
    BY <1>1, <1>2, ConcatTail, Zenon
  <1> QED
    BY <1>1, <1>2, <1>3

Undisturbed(o) == failed[o] = {} /\ torn[o] = {}

Orderly(o) ==
  /\ pending[o] = <<>> => awaiting[o] = <<>>
  /\ inbound[Other(o)] <= outbound[o]
  /\ Consecutive(Chain(o), inbound[Other(o)], outbound[o])

\* A connection that is being established has sent nothing; nobody sends before
\* it has a cipher.
Fresh(o) ==
  /\ state[o] = "connecting" => pending[o] = <<>> /\ awaiting[o] = <<>> /\ writing[o] = NoOne
  /\ \/ state[o] \in {"securing", "secured"} \/ writing[o] \in Senders \/ outbound[o] > 0
     => Cipher(o) # "none"

OrderInv ==
  /\ TypeInv
  /\ \A o \in Ends : Fresh(o)
  /\ \A o \in Ends : Undisturbed(o) => Orderly(o)
  /\ GarbledHasCause

LEMMA OrderInit == Init => OrderInv
  <1> SUFFICES ASSUME Init PROVE OrderInv
    OBVIOUS
  <1>1. ASSUME NEW o \in Ends PROVE Fresh(o) /\ Orderly(o)
    <2>1. Other(o) \in Ends /\ NoOne \notin Senders
      BY Others, LinkAssumption
    <2>2. Chain(o) = <<>>
      BY <2>1, ChainFacts, FrameTypes DEF Init, Chain
    <2>3. Consecutive(<<>>, 0, 0)
      BY DEF Consecutive
    <2> QED
      BY <2>1, <2>2, <2>3 DEF Init, Fresh, Orderly
  <1>2. GarbledHasCause
    BY DEF Init, GarbledHasCause
  <1> QED
    BY <1>1, <1>2, TypeInit DEF OrderInv

LEMMA FreshNext == OrderInv /\ [Next]_vars => \A o \in Ends : Fresh(o)'
  <1> SUFFICES ASSUME OrderInv, [Next]_vars, NEW o \in Ends PROVE Fresh(o)'
    OBVIOUS
  <1>1. /\ TypeInv /\ BufferTypes /\ FateTypes /\ NonceTypes /\ Fresh(o)
        /\ NoOne \notin Writers /\ Senders \subseteq Writers /\ Main \notin Senders
        /\ Reader \notin Senders
    BY TypeParts, LinkAssumption DEF OrderInv, TypeInv, Writers
  <1>2. CASE UNCHANGED vars \/ Break
    BY <1>1, <1>2 DEF vars, Break, fate, buffers, nonces, Fresh
  <1>3. ASSUME NEW e \in Ends, Connected(e) PROVE Fresh(o)'
    BY <1>1, <1>3 DEF Connected, nonces, Fresh, FateTypes, BufferTypes
  <1>4. ASSUME NEW e \in Ends, \/ Overloaded(e) \/ Closed(e)
        PROVE  Fresh(o)'
    BY <1>1, <1>4 DEF Overloaded, Closed, Disconnect, buffers, nonces, Fresh, FateTypes
  <1>5. ASSUME NEW e \in Ends, Secure(e) PROVE Fresh(o)'
    BY <1>1, <1>5 DEF Secure, buffers, nonces, Fresh, FateTypes
  <1>6. ASSUME NEW e \in Ends, NEW w \in Writers, Prepare(e, w), UNCHANGED outbound,
               UNCHANGED state, state[e] \in {"securing", "secured"}
        PROVE  Fresh(o)'
    BY <1>1, <1>6 DEF Prepare, Fresh, FateTypes, BufferTypes
  <1>7. ASSUME NEW e \in Ends, NEW w \in Writers, NEW f,
               TransmitOk(e, w, f) \/ TransmitFails(e, w), state' \in {state, [state EXCEPT ![e] = "retired"]},
               outbound' = outbound \/ (w \in Senders /\ outbound' = [outbound EXCEPT ![e] = @ + 1])
        PROVE  Fresh(o)'
    <2>1. /\ writing[e] = w /\ writing' = [writing EXCEPT ![e] = NoOne]
          /\ o # e => pending'[o] = pending[o] /\ awaiting'[o] = awaiting[o]
      BY <1>1, <1>7 DEF TransmitOk, TransmitFails, BufferTypes
    <2>2. CASE o = e
      BY <1>1, <1>7, <2>1, <2>2 DEF Fresh, FateTypes, BufferTypes, NonceTypes
    <2>3. CASE o # e
      BY <1>1, <1>7, <2>1, <2>3, SMTT(30) DEF Fresh, FateTypes, BufferTypes, NonceTypes
    <2> QED
      BY <2>2, <2>3
  <1>8. ASSUME NEW e \in Ends, Receive(e) PROVE Fresh(o)'
    <2>1. \/ Handshake(e) \/ Refuse(e)
          \/ UNCHANGED <<pending, awaiting, writing, outbound>> /\ UNCHANGED state
          \/ UNCHANGED <<pending, awaiting, writing, outbound>>
             /\ state' = [state EXCEPT ![e] = "retired"]
          \/ Prepare(e, Reader) /\ UNCHANGED <<nonces, fate>> /\ state[e] = "secured"
      BY <1>8 DEF Receive, Decode, Disconnect, buffers, nonces, fate
    <2>2. CASE Handshake(e) \/ Refuse(e)
      BY <1>1, <2>2 DEF Handshake, Refuse, Disconnect, buffers, nonces, Fresh, FateTypes
    <2>3. CASE UNCHANGED <<pending, awaiting, writing, outbound>> /\ UNCHANGED state
      BY <1>1, <2>3 DEF Fresh
    <2>4. CASE /\ UNCHANGED <<pending, awaiting, writing, outbound>>
               /\ state' = [state EXCEPT ![e] = "retired"]
      BY <1>1, <2>4 DEF Fresh, FateTypes
    <2>5. CASE Prepare(e, Reader) /\ UNCHANGED <<nonces, fate>> /\ state[e] = "secured"
      BY <1>6, <2>5, ReaderWrites DEF nonces, fate
    <2> QED
      BY <2>1, <2>2, <2>3, <2>4, <2>5
  <1>9. ASSUME NEW e \in Ends, Answer(e) \/ Probe(e) PROVE Fresh(o)'
    <2>1. \E w \in Writers, k \in {"answer", "probe"} :
            TransmitOk(e, w, Control(k)) \/ TransmitFails(e, w)
      BY <1>9, ReaderWrites DEF Answer, Probe
    <2>2. UNCHANGED outbound /\ state' \in {state, [state EXCEPT ![e] = "retired"]}
      BY <1>9 DEF Answer, Probe, Disconnect, nonces, fate
    <2> QED
      BY <1>7, <2>1, <2>2
  <1>10. ASSUME NEW e \in Ends, Sent(e) PROVE Fresh(o)'
    <2>1. /\ UNCHANGED <<writing, outbound, state>>
          /\ \/ pending' = [pending EXCEPT ![e] = awaiting[e]]
             \/ pending' = [pending EXCEPT ![e] = <<>>]
          /\ \/ awaiting' = [awaiting EXCEPT ![e] = <<>>]
             \/ awaiting' = awaiting
      BY <1>10 DEF Sent, Batch, nonces, fate
    <2> QED
      BY <1>1, <2>1 DEF Fresh, BufferTypes
  <1>11. ASSUME NEW e \in Ends, SendAborted(e) PROVE Fresh(o)'
    BY <1>1, <1>11 DEF SendAborted, nonces, fate, Fresh
  <1>12. ASSUME NEW e \in Ends, Keepalive(e) PROVE Fresh(o)'
    <2>1. \/ Prepare(e, Main) /\ state[e] = "secured"
          \/ UNCHANGED buffers
      BY <1>12 DEF Keepalive
    <2>2. UNCHANGED <<outbound, state>>
      BY <1>12 DEF Keepalive, nonces
    <2>3. CASE UNCHANGED buffers
      BY <1>1, <2>2, <2>3 DEF buffers, Fresh
    <2> QED
      BY <1>6, <2>1, <2>2, <2>3, ReaderWrites
  <1>13. ASSUME NEW e \in Ends, NEW s \in Senders, SendBegin(e, s) PROVE Fresh(o)'
    BY <1>1, <1>6, <1>13 DEF SendBegin, nonces, fate
  <1>14. ASSUME NEW e \in Ends, NEW s \in Senders, SendEnd(e, s) PROVE Fresh(o)'
    BY <1>1, <1>7, <1>14 DEF SendEnd, Encode, fate
  <1> QED
    BY <1>2, <1>3, <1>4, <1>5, <1>8, <1>9, <1>10, <1>11, <1>12, <1>13, <1>14 DEF Next

LEMMA DisturbedForGood ==
  ASSUME TypeInv, [Next]_vars, NEW o \in Ends, Undisturbed(o)'
  PROVE  Undisturbed(o)
  <1>1. BufferTypes
    BY TypeParts DEF TypeInv
  <1>2. CASE UNCHANGED <<failed, torn>>
    BY <1>2 DEF Undisturbed
  <1>3. ASSUME NEW e \in Ends, NEW w \in Writers, Prepare(e, w) PROVE Undisturbed(o)
    BY <1>1, <1>3 DEF Prepare, Undisturbed, BufferTypes
  <1>4. ASSUME NEW e \in Ends, NEW w \in Writers, NEW f,
               TransmitOk(e, w, f) \/ TransmitFails(e, w)
        PROVE  Undisturbed(o)
    BY <1>1, <1>4 DEF TransmitOk, TransmitFails, Undisturbed, BufferTypes
  <1>5. ASSUME NEW e \in Ends, Sent(e) PROVE Undisturbed(o)
    <2>1. /\ torn[e] = {}
          /\ failed' = failed \/ failed' = [failed EXCEPT ![e] = @ \cup {"rest"}]
          /\ \A x \in Ends \ {e} : torn'[x] = torn[x]
      BY <1>1, <1>5 DEF Sent, BufferTypes
    <2> QED
      BY <1>1, <2>1 DEF Undisturbed, BufferTypes
  <1>6. ASSUME NEW e \in Ends, Receive(e) \/ Keepalive(e)
        PROVE  UNCHANGED <<failed, torn>> \/ \E w \in Writers : Prepare(e, w)
    BY <1>6, ReaderWrites
    DEF Receive, Handshake, Refuse, Decode, Keepalive, buffers
  <1>7. ASSUME NEW e \in Ends, Answer(e) \/ Probe(e) \/ \E s \in Senders : SendEnd(e, s)
        PROVE  \E w \in Writers, f \in {Control("answer"), Control("probe"),
                                        Data(outbound[e] + 1, Script[e][outbound[e] + 1])} :
                 TransmitOk(e, w, f) \/ TransmitFails(e, w)
    BY <1>7, ReaderWrites DEF Answer, Probe, SendEnd, Writers
  <1>8. ASSUME NEW e \in Ends, \E s \in Senders : SendBegin(e, s)
        PROVE  \E w \in Writers : Prepare(e, w)
    BY <1>8 DEF SendBegin, Writers
  <1>9. ASSUME \/ Break \/ UNCHANGED vars
               \/ \E e \in Ends : \/ Connected(e) \/ Overloaded(e) \/ Secure(e)
                                  \/ Closed(e) \/ SendAborted(e)
        PROVE  UNCHANGED <<failed, torn>>
    BY <1>9 DEF Break, vars, Connected, Overloaded, Secure, Closed, SendAborted, buffers
  <1> QED
    BY <1>2, <1>3, <1>4, <1>5, <1>6, <1>7, <1>8, <1>9 DEF Next

\* What does not concern an end's frames leaves them in order.
LEMMA OrderStay ==
  ASSUME OrderInv, [Next]_vars, NEW o \in Ends, Undisturbed(o)',
         pending'[o] = pending[o], awaiting'[o] = awaiting[o],
         wire'[Other(o)] = wire[Other(o)],
         inbound'[Other(o)] = inbound[Other(o)], outbound'[o] = outbound[o]
  PROVE  Orderly(o)'
  <1>1. Orderly(o)
    BY DisturbedForGood DEF OrderInv
  <1> QED
    BY <1>1 DEF Orderly, Chain

\* A frame that is sent or queued comes last.
LEMMA OrderTransmit ==
  ASSUME OrderInv, [Next]_vars, NEW o \in Ends, Undisturbed(o)', NEW w \in Writers,
         NEW f \in Frames, TransmitOk(o, w, f) \/ TransmitFails(o, w),
         UNCHANGED <<wire, inbound>>,
         \/ f.kind # "data" /\ outbound'[o] = outbound[o]
         \/ f.kind = "data" /\ f.nonce = outbound[o] + 1 /\ outbound'[o] = outbound[o] + 1
  PROVE  Orderly(o)'
  <1>1. Orderly(o)
    BY DisturbedForGood DEF OrderInv
  <1>2. /\ BufferTypes /\ wire[Other(o)] \in Seq(Frames) /\ pending[o] \in Seq(Frames)
        /\ awaiting[o] \in Seq(Frames) /\ inbound[Other(o)] \in Nat /\ outbound[o] \in Nat
    BY Others, TypeParts DEF OrderInv, TypeInv, BufferTypes, NetworkTypes, NonceTypes
  <1>3. TransmitOk(o, w, f)
    <2>1. ASSUME TransmitFails(o, w) PROVE FALSE
      <3>1. "first" \in failed'[o]
        BY <1>2, <2>1 DEF TransmitFails, BufferTypes
      <3> QED
        BY <3>1 DEF Undisturbed
    <2> QED
      BY <2>1
  <1>4. /\ Chain(o)' = Append(Chain(o), f)
        /\ ~ (pending'[o] = <<>>)
    <2>1. CASE pending[o] = <<>>
      <3>1. pending'[o] = <<f>> /\ awaiting'[o] = <<>> /\ awaiting[o] = <<>>
        BY <1>1, <1>2, <1>3, <2>1 DEF TransmitOk, BufferTypes, Orderly
      <3>2. /\ Chain(o)' = (wire[Other(o)] \o <<f>>) \o <<>>
            /\ Chain(o) = (wire[Other(o)] \o <<>>) \o <<>>
        BY <2>1, <3>1 DEF Chain
      <3>3. <<f>> # <<>>
        OBVIOUS
      <3> QED
        BY <1>2, <3>1, <3>2, <3>3, ChainFacts
    <2>2. CASE pending[o] # <<>>
      <3>1. pending'[o] = pending[o] /\ awaiting'[o] = Append(awaiting[o], f)
        BY <1>2, <1>3, <2>2 DEF TransmitOk, BufferTypes
      <3>2. Chain(o)' = (wire[Other(o)] \o pending[o]) \o Append(awaiting[o], f)
        BY <3>1 DEF Chain
      <3>3. Chain(o)' = Append((wire[Other(o)] \o pending[o]) \o awaiting[o], f)
        <4>1. (wire[Other(o)] \o pending[o]) \o Append(awaiting[o], f)
                = Append((wire[Other(o)] \o pending[o]) \o awaiting[o], f)
          BY <1>2, ChainAppend, ZenonT(60)
        <4> QED
          BY <3>2, <4>1
      <3> QED
        BY <2>2, <3>1, <3>3 DEF Chain
    <2> QED
      BY <2>1, <2>2
  <1>5. Chain(o) \in Seq(Frames)
    BY <1>2, ChainFacts DEF Chain
  <1>6. Consecutive(Append(Chain(o), f), inbound[Other(o)], outbound'[o])
    BY <1>1, <1>2, <1>5, ConsecutiveAppend DEF Orderly
  <1> QED
    BY <1>1, <1>2, <1>4, <1>6 DEF Orderly

\* A completion moves the boundaries between wire, `pending` and `awaiting`.
LEMMA OrderSent ==
  ASSUME OrderInv, NEW o \in Ends, Undisturbed(o)', Sent(o)
  PROVE  Orderly(o)'
  <1>1. Orderly(o)
    BY DisturbedForGood DEF OrderInv, Next
  <1>2. /\ BufferTypes /\ NetworkTypes /\ wire[Other(o)] \in Seq(Frames)
        /\ pending[o] \in Seq(Frames) /\ awaiting[o] \in Seq(Frames) /\ Other(o) \in Ends
    BY Others, TypeParts DEF OrderInv, TypeInv, BufferTypes, NetworkTypes
  <1>3. wire'[Other(o)] = wire[Other(o)] \o pending[o] /\ UNCHANGED nonces
    BY <1>2 DEF Sent, NetworkTypes
  <1>4. /\ awaiting'[o] = <<>>
        /\ pending'[o] = awaiting[o]
    <2>1. CASE awaiting[o] # <<>>
      <3>1. ASSUME failed' = [failed EXCEPT ![o] = @ \cup {"rest"}] PROVE FALSE
        <4>1. "rest" \in failed'[o]
          BY <1>2, <3>1 DEF BufferTypes
        <4> QED
          BY <4>1 DEF Undisturbed
      <3>2. /\ pending' = [pending EXCEPT ![o] = awaiting[o]]
            /\ awaiting' = [awaiting EXCEPT ![o] = <<>>]
        BY <2>1, <3>1 DEF Sent, Batch
      <3> QED
        BY <1>2, <3>2 DEF BufferTypes
    <2>2. CASE awaiting[o] = <<>>
      BY <1>2, <2>2 DEF Sent, BufferTypes
    <2> QED
      BY <2>1, <2>2
  <1>5. Chain(o)' = Chain(o)
    BY <1>2, <1>3, <1>4, ChainFacts, FrameTypes DEF Chain
  <1> QED
    BY <1>1, <1>3, <1>4, <1>5 DEF Orderly, nonces

\* What an end decodes next bears the nonce it has come to.
LEMMA OrderReceive ==
  ASSUME OrderInv, NEW e \in Ends, Receive(e), NEW o \in Ends, Undisturbed(o)'
  PROVE  /\ Orderly(o)'
         /\ o = Other(e) /\ Head(wire[e]).kind = "data" => Authenticates(e, Head(wire[e]))
  <1> DEFINE f == Head(wire[e])
  <1>1. /\ Undisturbed(o) /\ Orderly(o) /\ [Next]_vars
    BY DisturbedForGood DEF OrderInv, Next
  <1>2. /\ BufferTypes /\ NetworkTypes /\ NonceTypes /\ wire[e] \in Seq(Frames) /\ wire[e] # <<>>
        /\ pending[o] \in Seq(Frames) /\ awaiting[o] \in Seq(Frames)
        /\ Other(o) \in Ends /\ Other(e) \in Ends /\ Other(Other(e)) = e /\ Other(Other(o)) = o
    BY Others, TypeParts DEF OrderInv, TypeInv, BufferTypes, NetworkTypes, Receive
  <1>3. /\ wire' = [wire EXCEPT ![e] = Tail(@)] /\ UNCHANGED <<pending, awaiting>>
        /\ \/ f.kind # "data" /\ UNCHANGED nonces
           \/ f.kind = "data" /\ state[e] = "secured" /\ Decode(e, f)
    <2>1. wire' = [wire EXCEPT ![e] = Tail(@)]
      BY DEF Receive
    <2>2. /\ \/ UNCHANGED buffers \/ Prepare(e, Reader)
          /\ \/ f.kind # "data" /\ UNCHANGED nonces
             \/ f.kind = "data" /\ state[e] = "secured" /\ Decode(e, f)
      BY DEF Receive, Handshake, Refuse, Decode
    <2> QED
      BY <2>1, <2>2 DEF Prepare, buffers
  <1> HIDE DEF f
  <1>4. UNCHANGED outbound /\ inbound' \in {inbound, [inbound EXCEPT ![e] = @ + 1]}
    BY <1>3 DEF Decode, nonces
  <1>5. CASE o # Other(e)
    <2>1. e # Other(o)
      BY <1>2, <1>5
    <2>2. wire'[Other(o)] = wire[Other(o)] /\ inbound'[Other(o)] = inbound[Other(o)]
      BY <1>2, <1>3, <1>4, <2>1 DEF NetworkTypes, NonceTypes
    <2> QED
      BY <1>1, <1>3, <1>4, <1>5, <2>2, OrderStay
  <1>6. CASE o = Other(e)
    <2>1. /\ Chain(o) = (wire[e] \o pending[o]) \o awaiting[o] /\ Chain(o) \in Seq(Frames)
          /\ Chain(o) # <<>> /\ Head(Chain(o)) = f /\ Chain(o)' = Tail(Chain(o))
      <3>1. Chain(o) = (wire[e] \o pending[o]) \o awaiting[o]
        BY <1>2, <1>6 DEF Chain
      <3>2. Chain(o)' = (Tail(wire[e]) \o pending[o]) \o awaiting[o]
        BY <1>2, <1>3, <1>6 DEF Chain, NetworkTypes
      <3>3. /\ (wire[e] \o pending[o]) \o awaiting[o] \in Seq(Frames)
            /\ (Tail(wire[e]) \o pending[o]) \o awaiting[o]
                 = Tail((wire[e] \o pending[o]) \o awaiting[o])
            /\ Head(wire[e]) = Head((wire[e] \o pending[o]) \o awaiting[o])
            /\ (wire[e] \o pending[o]) \o awaiting[o] # <<>>
        BY <1>2, ChainTail, ZenonT(60)
      <3> QED
        BY <3>1, <3>2, <3>3 DEF f
    <2>2. /\ inbound[e] \in Nat /\ outbound[o] \in Nat /\ inbound[e] <= outbound[o]
          /\ Consecutive(Chain(o), inbound[e], outbound[o])
      BY <1>1, <1>2, <1>6 DEF Orderly, NonceTypes
    <2>3. CASE f.kind # "data"
      <3>1. Consecutive(Tail(Chain(o)), inbound[e], outbound[o])
        BY <2>1, <2>2, <2>3, ConsecutiveTail
      <3> QED
        BY <1>1, <1>2, <1>3, <1>6, <2>1, <2>2, <2>3, <3>1 DEF Orderly, nonces, f
    <2>4. CASE f.kind = "data"
      <3>1. /\ f.nonce = inbound[e] + 1 /\ inbound[e] + 1 <= outbound[o]
            /\ Consecutive(Tail(Chain(o)), inbound[e] + 1, outbound[o])
        BY <2>1, <2>2, <2>4, ConsecutiveTail
      <3>2. state[e] = "secured" /\ inbound'[e] = inbound[e] + 1
        BY <1>2, <1>3, <2>4 DEF Decode, NonceTypes
      <3>3. Cipher(e) # "none" /\ Cipher(o) # "none"
        BY <1>6, <2>2, <3>1, <3>2 DEF OrderInv, Fresh
      <3>4. Authenticates(e, f)
        BY <1>1, <1>6, <3>1, <3>3, CiphersAgree DEF Authenticates, Undisturbed
      <3>5. Orderly(o)'
        BY <1>1, <1>2, <1>3, <1>4, <1>6, <2>1, <3>1, <3>2 DEF Orderly
      <3> QED
        BY <3>4, <3>5 DEF f
    <2> QED
      BY <2>3, <2>4
  <1> QED
    BY <1>5, <1>6

LEMMA OrderNext == OrderInv /\ [Next]_vars => \A o \in Ends : Undisturbed(o)' => Orderly(o)'
  <1> SUFFICES ASSUME OrderInv, [Next]_vars, NEW o \in Ends, Undisturbed(o)' PROVE Orderly(o)'
    OBVIOUS
  <1>1. /\ BufferTypes /\ NonceTypes /\ NetworkTypes /\ Other(o) \in Ends
        /\ pending[o] \in Seq(Frames) /\ awaiting[o] \in Seq(Frames)
        /\ wire[Other(o)] \in Seq(Frames) /\ outbound[o] \in Nat /\ inbound[Other(o)] \in Nat
        /\ Orderly(o)
    BY Others, TypeParts, DisturbedForGood
    DEF OrderInv, TypeInv, BufferTypes, NonceTypes, NetworkTypes
  <1>2. CASE UNCHANGED <<pending, awaiting, wire, inbound, outbound>>
    BY <1>2, OrderStay
  <1>3. ASSUME NEW e \in Ends, Connected(e) PROVE Orderly(o)'
    <2>1. UNCHANGED <<awaiting, wire, inbound, outbound>>
          /\ pending' = [pending EXCEPT ![e] = <<Control("initial")>>]
      BY <1>3 DEF Connected, nonces
    <2>2. CASE o # e
      BY <1>1, <2>1, <2>2, OrderStay DEF BufferTypes
    <2>3. CASE o = e
      <3>1. /\ pending[o] = <<>> /\ awaiting[o] = <<>> /\ awaiting'[o] = <<>>
            /\ pending'[o] = <<Control("initial")>>
        BY <1>1, <1>3, <2>1, <2>3 DEF OrderInv, Fresh, Connected, BufferTypes
      <3>2. /\ Chain(o) = (wire[Other(o)] \o <<>>) \o <<>>
            /\ Chain(o)' = (wire[Other(o)] \o <<Control("initial")>>) \o <<>>
        BY <2>1, <3>1 DEF Chain
      <3>3. Chain(o)' = Append(Chain(o), Control("initial")) /\ Chain(o) \in Seq(Frames)
        BY <1>1, <3>1, <3>2, ChainFacts, FrameTypes
      <3>4. Control("initial").kind # "data" /\ Control("initial") \in Frames
        BY FrameTypes DEF Control
      <3>5. Consecutive(Chain(o)', inbound[Other(o)], outbound[o])
        BY <1>1, <3>3, <3>4, ConsecutiveAppend DEF Orderly
      <3> QED
        BY <1>1, <2>1, <3>1, <3>5 DEF Orderly
    <2> QED
      BY <2>2, <2>3
  <1>4. ASSUME NEW e \in Ends, Overloaded(e) PROVE Orderly(o)'
    <2>1. UNCHANGED <<pending, awaiting, inbound, outbound>>
          /\ wire' = [wire EXCEPT ![Other(e)] = Append(@, Control("busy"))]
      BY <1>4 DEF Overloaded, nonces, buffers
    <2>2. CASE o # e
      <3>1. Other(o) # Other(e)
        BY <2>2, Others
      <3> QED
        BY <1>1, <2>1, <3>1, OrderStay DEF NetworkTypes
    <2>3. CASE o = e
      <3>1. /\ pending[o] = <<>> /\ awaiting[o] = <<>>
            /\ wire'[Other(o)] = Append(wire[Other(o)], Control("busy"))
        BY <1>1, <1>4, <2>1, <2>3 DEF OrderInv, Fresh, Overloaded, NetworkTypes
      <3>2. /\ Chain(o) = (wire[Other(o)] \o <<>>) \o <<>>
            /\ Chain(o)' = (Append(wire[Other(o)], Control("busy")) \o <<>>) \o <<>>
        BY <2>1, <3>1 DEF Chain
      <3>3. Chain(o)' = Append(Chain(o), Control("busy")) /\ Chain(o) \in Seq(Frames)
        BY <1>1, <3>1, <3>2, ChainFacts, FrameTypes
      <3>4. Control("busy").kind # "data" /\ Control("busy") \in Frames
        BY FrameTypes DEF Control
      <3>5. Consecutive(Chain(o)', inbound[Other(o)], outbound[o])
        BY <1>1, <3>3, <3>4, ConsecutiveAppend DEF Orderly
      <3> QED
        BY <1>1, <2>1, <3>1, <3>5 DEF Orderly
    <2> QED
      BY <2>2, <2>3
  <1>5. ASSUME NEW e \in Ends, Receive(e) PROVE Orderly(o)'
    BY <1>5, OrderReceive
  <1>6. ASSUME NEW e \in Ends, NEW w \in Writers, NEW f \in Frames,
               TransmitOk(e, w, f) \/ TransmitFails(e, w), UNCHANGED <<wire, inbound>>,
               \/ f.kind # "data" /\ UNCHANGED outbound
               \/ /\ f.kind = "data" /\ f.nonce = outbound[e] + 1
                  /\ outbound' = [outbound EXCEPT ![e] = @ + 1]
        PROVE  Orderly(o)'
    <2>1. CASE o = e
      BY <1>1, <1>6, <2>1, OrderTransmit DEF NonceTypes
    <2>2. CASE o # e
      <3>1. /\ pending'[o] = pending[o] /\ awaiting'[o] = awaiting[o]
            /\ outbound'[o] = outbound[o]
        BY <1>1, <1>6, <2>2 DEF TransmitOk, TransmitFails, BufferTypes, NonceTypes
      <3> QED
        BY <1>6, <3>1, OrderStay
    <2> QED
      BY <2>1, <2>2
  <1>7. ASSUME NEW e \in Ends, Answer(e) \/ Probe(e) PROVE Orderly(o)'
    <2>1. \E w \in Writers, k \in {"answer", "probe"} :
            TransmitOk(e, w, Control(k)) \/ TransmitFails(e, w)
      BY <1>7, ReaderWrites DEF Answer, Probe
    <2>2. UNCHANGED <<wire, inbound, outbound>>
      BY <1>7 DEF Answer, Probe, nonces
    <2>3. \A k \in {"answer", "probe"} : Control(k) \in Frames /\ Control(k).kind # "data"
      BY FrameTypes DEF Control
    <2> QED
      BY <1>6, <2>1, <2>2, <2>3
  <1>8. ASSUME NEW e \in Ends, NEW s \in Senders, SendEnd(e, s) PROVE Orderly(o)'
    <2> DEFINE n == outbound[e] + 1
               f == Data(n, Script[e][n])
    <2>1. (TransmitOk(e, s, f) \/ TransmitFails(e, s)) /\ UNCHANGED <<wire, inbound>>
          /\ outbound' = [outbound EXCEPT ![e] = @ + 1] /\ s \in Writers
      BY <1>8 DEF SendEnd, Encode, Writers
    <2>2. f \in Frames /\ f.kind = "data" /\ f.nonce = n
      <3>1. n \in Nat \ {0} /\ n \in 1 .. Len(Script[e]) /\ Script[e] \in Seq(Messages)
        <4>1. Script[e] \in Seq(Messages) /\ Len(Script[e]) \in Nat /\ outbound[e] \in Nat
          BY <1>1, LinkAssumption, SMTT(30), ZenonT(60) DEF NonceTypes
        <4>2. outbound[e] < Len(Script[e])
          BY <1>8 DEF OrderInv, TypeInv, Ready, SendEnd, Busy
        <4> QED
          BY <4>1, <4>2
      <3>2. Script[e][n] \in Messages
        BY <3>1
      <3> QED
        BY <3>1, <3>2, FrameTypes DEF Data
    <2> HIDE DEF f
    <2> QED
      BY <1>6, <2>1, <2>2
  <1>9. ASSUME NEW e \in Ends, Sent(e) PROVE Orderly(o)'
    <2>1. CASE o = e
      BY <1>9, <2>1, OrderSent
    <2>2. CASE o # e
      <3>1. Other(o) # Other(e)
        BY <2>2, Others
      <3>2. /\ pending'[o] = pending[o] /\ awaiting'[o] = awaiting[o]
            /\ wire'[Other(o)] = wire[Other(o)] /\ UNCHANGED nonces
        BY <1>1, <1>9, <2>2, <3>1 DEF Sent, BufferTypes, NetworkTypes
      <3> QED
        BY <3>2, OrderStay DEF nonces
    <2> QED
      BY <2>1, <2>2
  <1>10. ASSUME \/ Break \/ UNCHANGED vars
                \/ \E e \in Ends : \/ Secure(e) \/ Closed(e) \/ SendAborted(e) \/ Keepalive(e)
                                   \/ \E s \in Senders : SendBegin(e, s)
         PROVE  UNCHANGED <<pending, awaiting, wire, inbound, outbound>>
    BY <1>10 DEF Break, vars, Secure, Closed, SendAborted, Keepalive, SendBegin, Prepare,
                 buffers, nonces
  <1> QED
    BY <1>2, <1>3, <1>4, <1>5, <1>7, <1>8, <1>9, <1>10 DEF Next

LEMMA GarbledNext == OrderInv /\ [Next]_vars => GarbledHasCause'
  <1> SUFFICES ASSUME OrderInv, [Next]_vars, NEW e \in Ends, discord'[e] = "garbled",
                      Undisturbed(Other(e))'
               PROVE  FALSE
    BY DEF GarbledHasCause, Undisturbed
  <1>1. FateTypes /\ Other(e) \in Ends
    BY Others, TypeParts DEF OrderInv, TypeInv
  <1>2. discord[e] # "garbled"
    BY <1>1, DisturbedForGood DEF OrderInv, GarbledHasCause, Undisturbed
  <1>3. ASSUME NEW x \in Ends, Receive(x) PROVE FALSE
    <2>1. Authenticates(x, Head(wire[x])) \/ Head(wire[x]).kind # "data" \/ x # e
      <3>1. x = e => (Head(wire[x]).kind = "data" => Authenticates(x, Head(wire[x])))
        BY <1>1, <1>3, OrderReceive
      <3> QED
        BY <3>1
    <2>2. \/ UNCHANGED discord
          \/ discord' = [discord EXCEPT ![x] = "refused"]
          \/ /\ Head(wire[x]).kind = "data" /\ ~Authenticates(x, Head(wire[x]))
             /\ discord' = [discord EXCEPT ![x] = "garbled"]
      BY <1>3 DEF Receive, Handshake, Refuse, Decode, fate
    <2> QED
      BY <1>1, <1>2, <2>1, <2>2 DEF FateTypes
  <1>4. ASSUME NEW x \in Ends,
               \/ Connected(x) \/ Overloaded(x) \/ Secure(x) \/ Answer(x) \/ Closed(x)
               \/ Sent(x) \/ SendAborted(x) \/ Keepalive(x) \/ Probe(x)
               \/ \E s \in Senders : SendBegin(x, s) \/ SendEnd(x, s)
        PROVE  UNCHANGED discord
    BY <1>4 DEF Connected, Overloaded, Secure, Answer, Closed, Sent, SendAborted, Keepalive,
                Probe, SendBegin, SendEnd, fate
  <1>5. CASE Break \/ UNCHANGED vars
    BY <1>2, <1>5 DEF Break, vars, fate
  <1> QED
    BY <1>2, <1>3, <1>4, <1>5 DEF Next

\* Two nodes that follow the protocol fall out over a stream only if a send has
\* failed at once or accesses to a transmitter have overlapped.
THEOREM DiscordHasCause == Spec => []GarbledHasCause
  <1>1. OrderInv /\ [Next]_vars => OrderInv'
    BY TypeNext, FreshNext, OrderNext, GarbledNext DEF OrderInv
  <1> QED
    BY <1>1, OrderInit, PTL DEF Spec, OrderInv
-----------------------------------------------------------------------------
(* Patience. On a prompt network, as long as both ends are open and nothing has
   failed or overlapped, an end that has been silent for a period has asked, and
   the question or the answer is somewhere between the two ends.              *)

Calm == prompt /\ \A e \in Ends : open[e] /\ Undisturbed(e)

Asking(e) ==
  \/ writing[e] = Main \/ Control("probe") \in OnItsWay(e)
  \/ writing[Other(e)] = Reader \/ Control("answer") \in OnItsWay(Other(e))

Patient(e) ==
  /\ flying[e] \/ pending[e] = <<>>
  /\ idle[e] > 0 => Asking(e)

PatienceInv ==
  /\ OrderInv
  /\ \A e \in Ends : state[e] = "retired" => ~open[e]
  /\ broken => ~prompt
  /\ Calm => \A e \in Ends : Patient(e)
  /\ HealthyStays

LEMMA AlwaysOrdered == OrderInv /\ [Next]_vars => OrderInv'
  BY TypeNext, FreshNext, OrderNext, GarbledNext DEF OrderInv

\* A step changes what is open and retired in one way only, and the network's
\* promise never.
LEMMA FateSteps ==
  ASSUME TypeInv, [Next]_vars
  PROVE  /\ prompt' = prompt
         /\ broken' = broken \/ ~prompt
         /\ \A o \in Ends : open'[o] => open[o]
         /\ (\A o \in Ends : state[o] = "retired" => ~open[o]) =>
              \A o \in Ends : state'[o] = "retired" => ~open'[o]
  <1>1. FateTypes
    BY TypeParts DEF TypeInv
  <1>2. CASE Break \/ UNCHANGED vars
    BY <1>2 DEF Break, vars, fate, network
  <1>3. ASSUME NEW e \in Ends, UNCHANGED network,
               \/ UNCHANGED <<state, open>> \/ Disconnect(e)
               \/ /\ UNCHANGED state /\ open' = [open EXCEPT ![e] = FALSE]
               \/ \E s \in {"pending", "securing", "secured"} :
                    state' = [state EXCEPT ![e] = s] /\ UNCHANGED open
        PROVE  /\ prompt' = prompt /\ broken' = broken
               /\ \A o \in Ends : open'[o] => open[o]
               /\ (\A o \in Ends : state[o] = "retired" => ~open[o]) =>
                    \A o \in Ends : state'[o] = "retired" => ~open'[o]
    BY <1>1, <1>3 DEF network, Disconnect, FateTypes
  <1>4. ASSUME NEW e \in Ends,
               \/ Connected(e) \/ Overloaded(e) \/ Secure(e) \/ Answer(e)
               \/ Closed(e) \/ Sent(e) \/ SendAborted(e) \/ Keepalive(e) \/ Probe(e)
               \/ \E s \in Senders : SendBegin(e, s) \/ SendEnd(e, s)
        PROVE  /\ UNCHANGED network
               /\ \/ UNCHANGED <<state, open>> \/ Disconnect(e)
                  \/ /\ UNCHANGED state /\ open' = [open EXCEPT ![e] = FALSE]
                  \/ \E s \in {"pending", "securing", "secured"} :
                       state' = [state EXCEPT ![e] = s] /\ UNCHANGED open
    BY <1>4 DEF Connected, Overloaded, Secure, Answer, Closed, Sent, SendAborted, Keepalive,
                Probe, SendBegin, SendEnd, fate
  <1>5. ASSUME NEW e \in Ends, Receive(e)
        PROVE  /\ UNCHANGED network
               /\ \/ UNCHANGED <<state, open>> \/ Disconnect(e)
                  \/ state' = [state EXCEPT ![e] = "securing"] /\ UNCHANGED open
    BY <1>5 DEF Receive, Handshake, Refuse, Decode, fate
  <1> QED
    BY <1>2, <1>3, <1>4, <1>5 DEF Next

LEMMA CalmBefore == ASSUME TypeInv, [Next]_vars, Calm' PROVE Calm
  BY FateSteps, DisturbedForGood DEF Calm

LEMMA HeadOrTail ==
  ASSUME NEW q \in Seq(Frames), q # <<>>, NEW f \in Elements(q)
  PROVE  f = Head(q) \/ f \in Elements(Tail(q))
  <1>1. PICK n \in DOMAIN q : f = q[n]
    BY DEF Elements
  <1>2. CASE n = 1
    BY <1>1, <1>2
  <1>3. CASE n # 1
    <2>1. n - 1 \in DOMAIN Tail(q) /\ Tail(q)[n - 1] = q[n]
      BY <1>1, <1>3
    <2> QED
      BY <1>1, <2>1 DEF Elements
  <1> QED
    BY <1>2, <1>3

\* A frame stays on its way until it is received.
LEMMA FrameKept ==
  ASSUME OrderInv, [Next]_vars, NEW o \in Ends, NEW f \in OnItsWay(o)
  PROVE  f \in OnItsWay(o)' \/ (Receive(Other(o)) /\ f = Head(wire[Other(o)]))
  <1> DEFINE Goal == f \in OnItsWay(o)' \/ (Receive(Other(o)) /\ f = Head(wire[Other(o)]))
             P == pending[o]   A == awaiting[o]   W == wire[Other(o)]
  <1>1. /\ BufferTypes /\ NetworkTypes /\ Other(o) \in Ends /\ Other(Other(o)) = o
        /\ P \in Seq(Frames) /\ A \in Seq(Frames) /\ W \in Seq(Frames)
        /\ f \in Elements(P) \cup Elements(A) \cup Elements(W)
    BY TypeParts, Others DEF OrderInv, TypeInv, BufferTypes, NetworkTypes, OnItsWay
  <1>2. ASSUME Elements(P) \subseteq Elements(pending'[o]),
               Elements(A) \subseteq Elements(awaiting'[o]),
               Elements(W) \subseteq Elements(wire'[Other(o)])
        PROVE  Goal
    BY <1>1, <1>2 DEF OnItsWay
  <1>3. CASE UNCHANGED <<pending, awaiting, wire>>
    BY <1>2, <1>3
  <1>4. ASSUME NEW e \in Ends, Connected(e) PROVE Goal
    <2>1. UNCHANGED <<awaiting, wire>> /\ (e # o => pending'[o] = P) /\ (e = o => P = <<>>)
      BY <1>1, <1>4 DEF Connected, OrderInv, Fresh, BufferTypes
    <2>2. Elements(P) \subseteq Elements(pending'[o])
      BY <2>1, SmallElements
    <2> QED
      BY <1>2, <2>1, <2>2
  <1>5. ASSUME NEW e \in Ends, Overloaded(e) PROVE Goal
    <2>1. /\ UNCHANGED <<pending, awaiting>>
          /\ wire'[Other(o)] = W \/ wire'[Other(o)] = Append(W, Control("busy"))
      BY <1>1, <1>5, Others DEF Overloaded, buffers, NetworkTypes
    <2>2. Elements(W) \subseteq Elements(wire'[Other(o)])
      BY <1>1, <2>1, AppendElements, FrameTypes
    <2> QED
      BY <1>2, <2>1, <2>2
  <1>6. ASSUME NEW e \in Ends, Receive(e) PROVE Goal
    <2>1. /\ UNCHANGED <<pending, awaiting>>
          /\ e # Other(o) => wire'[Other(o)] = W
          /\ e = Other(o) => W # <<>> /\ wire'[Other(o)] = Tail(W)
      BY <1>1, <1>6
      DEF Receive, Handshake, Refuse, Decode, Prepare, buffers, NetworkTypes
    <2>2. CASE e # Other(o)
      BY <1>2, <2>1, <2>2
    <2>3. CASE e = Other(o)
      <3>1. CASE f \in Elements(W)
        BY <1>1, <1>6, <2>1, <2>3, <3>1, HeadOrTail DEF OnItsWay
      <3>2. CASE f \in Elements(P) \cup Elements(A)
        BY <2>1, <3>2 DEF OnItsWay
      <3> QED
        BY <1>1, <3>1, <3>2
    <2> QED
      BY <2>2, <2>3
  <1>7. ASSUME NEW e \in Ends, NEW w, NEW g \in Frames,
               TransmitOk(e, w, g) \/ TransmitFails(e, w), UNCHANGED wire
        PROVE  Goal
    <2>1. \/ P = <<>> /\ awaiting'[o] = A
          \/ pending'[o] = P /\ awaiting'[o] = Append(A, g)
          \/ pending'[o] = P /\ awaiting'[o] = A
      BY <1>1, <1>7 DEF TransmitOk, TransmitFails, BufferTypes
    <2>2. /\ Elements(P) \subseteq Elements(pending'[o])
          /\ Elements(A) \subseteq Elements(awaiting'[o])
      <3>1. Elements(Append(A, g)) = Elements(A) \cup {g} /\ (P = <<>> => Elements(P) = {})
        BY <1>1, <1>7, SmallElements, AppendElements
      <3> HIDE DEF P, A
      <3> QED
        BY <2>1, <3>1
    <2> QED
      BY <1>2, <1>7, <2>2
  <1>8. ASSUME NEW e \in Ends, Sent(e) PROVE Goal
    <2>1. CASE e # o
      <3>1. pending'[o] = P /\ awaiting'[o] = A
        BY <1>1, <1>8, <2>1 DEF Sent, BufferTypes
      <3>2. Other(e) # Other(o)
        BY <2>1, Others
      <3>3. wire'[Other(o)] = W
        BY <1>1, <1>8, <3>2 DEF Sent, NetworkTypes
      <3> QED
        BY <1>2, <3>1, <3>3
    <2>2. CASE e = o
      <3>1. /\ wire'[Other(o)] = W \o P
            /\ \/ pending'[o] = A
               \/ awaiting'[o] = A
        BY <1>1, <1>8, <2>2 DEF Sent, Batch, BufferTypes, NetworkTypes
      <3>2. Elements(wire'[Other(o)]) = Elements(W) \cup Elements(P)
        BY <1>1, <3>1, ConcatElements
      <3> QED
        BY <1>1, <3>1, <3>2 DEF OnItsWay
    <2> QED
      BY <2>1, <2>2
  <1>9. ASSUME NEW e \in Ends, Answer(e) \/ Probe(e) \/ \E s \in Senders : SendEnd(e, s)
        PROVE  Goal
    <2>1. CASE Answer(e)
      <3>1. UNCHANGED wire /\ (TransmitOk(e, Reader, Control("answer")) \/ TransmitFails(e, Reader))
        BY <2>1 DEF Answer
      <3> QED
        BY <1>7, <3>1, FrameTypes
    <2>3. CASE Probe(e)
      <3>1. UNCHANGED wire /\ (TransmitOk(e, Main, Control("probe")) \/ TransmitFails(e, Main))
        BY <2>3 DEF Probe
      <3> QED
        BY <1>7, <3>1, FrameTypes
    <2>2. ASSUME NEW s \in Senders, SendEnd(e, s) PROVE Goal
      <3> DEFINE g == Data(outbound[e] + 1, Script[e][outbound[e] + 1])
      <3>1. UNCHANGED wire /\ (TransmitOk(e, s, g) \/ TransmitFails(e, s)) /\ writing[e] = s
        BY <2>2 DEF SendEnd, Busy
      <3>2. g \in Frames
        <4>1. /\ Script[e] \in Seq(Messages) /\ outbound[e] \in Nat
              /\ outbound[e] < Len(Script[e])
          BY <3>1, LinkAssumption, TypeParts DEF OrderInv, TypeInv, Ready, NonceTypes
        <4>2. outbound[e] + 1 \in Nat \ {0} /\ Script[e][outbound[e] + 1] \in Messages
          BY <4>1
        <4> QED
          BY <4>2, FrameTypes
      <3> QED
        BY <1>7, <3>1, <3>2
    <2> QED
      BY <1>9, <2>1, <2>2, <2>3
  <1>10. ASSUME NEW e \in Ends,
                \/ Secure(e) \/ Closed(e) \/ SendAborted(e) \/ Keepalive(e)
                \/ \E s \in Senders : SendBegin(e, s)
         PROVE  Goal
    <2>1. UNCHANGED <<pending, awaiting, wire>>
      BY <1>10 DEF Secure, Closed, SendAborted, Keepalive, SendBegin, Prepare, buffers
    <2> QED
      BY <1>3, <2>1
  <1>11. CASE Break \/ UNCHANGED vars
    BY <1>3, <1>11 DEF Break, vars, buffers
  <1> QED
    BY <1>4, <1>5, <1>6, <1>8, <1>9, <1>10, <1>11 DEF Next

LEMMA TransmitPuts ==
  ASSUME TypeInv, NEW e \in Ends, NEW w, NEW f \in Frames, TransmitOk(e, w, f)
  PROVE  f \in OnItsWay(e)' /\ writing[e] = w
  <1>1. BufferTypes /\ pending[e] \in Seq(Frames) /\ awaiting[e] \in Seq(Frames)
    BY TypeParts DEF TypeInv, BufferTypes
  <1>2. pending'[e] = <<f>> \/ awaiting'[e] = Append(awaiting[e], f)
    BY <1>1 DEF TransmitOk, BufferTypes
  <1>3. f \in Elements(<<f>>) /\ f \in Elements(Append(awaiting[e], f))
    BY <1>1, SmallElements, AppendElements
  <1>4. f \in Elements(pending'[e]) \cup Elements(awaiting'[e])
    BY <1>2, <1>3
  <1> QED
    BY <1>4 DEF OnItsWay, TransmitOk

\* Who is between prepare and transmit stays there until it has transmitted, if
\* nobody else comes between.
LEMMA WriterKept ==
  ASSUME OrderInv, [Next]_vars, NEW e \in Ends, Undisturbed(e)', writing[e] \in {Main, Reader}
  PROVE  \/ writing'[e] = writing[e]
         \/ writing[e] = Main /\ Control("probe") \in OnItsWay(e)'
         \/ writing[e] = Reader /\ Control("answer") \in OnItsWay(e)'
  <1> DEFINE Goal == \/ writing'[e] = writing[e]
                     \/ writing[e] = Main /\ Control("probe") \in OnItsWay(e)'
                     \/ writing[e] = Reader /\ Control("answer") \in OnItsWay(e)'
  <1>1. /\ TypeInv /\ BufferTypes /\ writing[e] # NoOne /\ writing[e] \notin Senders
        /\ Main # Reader /\ Undisturbed(e)
    BY TypeParts, LinkAssumption, DisturbedForGood DEF OrderInv, TypeInv
  <1>2. CASE UNCHANGED writing
    BY <1>2
  <1>3. ASSUME NEW x \in Ends, NEW w, Prepare(x, w) PROVE Goal
    <2>1. CASE x = e
      BY <1>1, <1>3, <2>1 DEF Prepare, Undisturbed, BufferTypes
    <2>2. CASE x # e
      BY <1>1, <1>3, <2>2 DEF Prepare, BufferTypes
    <2> QED
      BY <2>1, <2>2
  <1>4. ASSUME NEW x \in Ends, NEW w, NEW f \in Frames, TransmitOk(x, w, f) \/ TransmitFails(x, w),
               \/ w = Main /\ f = Control("probe")
               \/ w = Reader /\ f = Control("answer")
               \/ w \in Senders
        PROVE  Goal
    <2>1. CASE x # e
      BY <1>1, <1>4, <2>1 DEF TransmitOk, TransmitFails, BufferTypes
    <2>2. CASE x = e /\ TransmitOk(x, w, f)
      BY <1>1, <1>4, <2>2, TransmitPuts
    <2>3. CASE x = e /\ TransmitFails(x, w)
      BY <1>1, <2>3 DEF TransmitFails, Undisturbed, BufferTypes
    <2> QED
      BY <1>4, <2>1, <2>2, <2>3
  <1>5. ASSUME NEW x \in Ends, Receive(x) \/ Keepalive(x) \/ \E s \in Senders : SendBegin(x, s)
        PROVE  Goal
    <2>1. UNCHANGED writing \/ \E w : Prepare(x, w)
      BY <1>5 DEF Receive, Handshake, Refuse, Decode, Keepalive, SendBegin, buffers
    <2> QED
      BY <1>2, <1>3, <2>1
  <1>6. ASSUME NEW x \in Ends, Answer(x) PROVE Goal
    <2>1. TransmitOk(x, Reader, Control("answer")) \/ TransmitFails(x, Reader)
      BY <1>6 DEF Answer
    <2>2. Control("answer") \in Frames
      BY FrameTypes
    <2> HIDE DEF Goal
    <2> QED
      BY <1>4, <2>1, <2>2
  <1>7. ASSUME NEW x \in Ends, Probe(x) PROVE Goal
    <2>1. Control("probe") \in Frames
      BY FrameTypes
    <2>2. CASE x # e
      BY <1>1, <1>7, <2>2 DEF Probe, TransmitOk, TransmitFails, BufferTypes
    <2>3. CASE x = e /\ TransmitOk(x, Main, Control("probe"))
      BY <1>1, <2>1, <2>3, TransmitPuts
    <2>4. CASE x = e /\ TransmitFails(x, Main)
      BY <1>1, <2>4 DEF TransmitFails, Undisturbed, BufferTypes
    <2> QED
      BY <1>7, <2>2, <2>3, <2>4 DEF Probe
  <1>8. ASSUME NEW x \in Ends, NEW s \in Senders, SendEnd(x, s) PROVE Goal
    <2>1. CASE x = e
      BY <1>1, <1>8, <2>1 DEF SendEnd, Busy
    <2>2. CASE x # e
      BY <1>1, <1>8, <2>2 DEF SendEnd, TransmitOk, TransmitFails, BufferTypes
    <2> QED
      BY <2>1, <2>2
  <1>9. ASSUME NEW x \in Ends,
               Connected(x) \/ Overloaded(x) \/ Secure(x) \/ Closed(x) \/ Sent(x) \/ SendAborted(x)
        PROVE  Goal
    BY <1>2, <1>9 DEF Connected, Overloaded, Secure, Closed, Sent, SendAborted, buffers
  <1>10. CASE Break \/ UNCHANGED vars
    BY <1>2, <1>10 DEF Break, vars, buffers
  <1> QED
    BY <1>5, <1>6, <1>7, <1>8, <1>9, <1>10 DEF Next

\* The question becomes an answer, and the answer ends the silence.
LEMMA AskingKept ==
  ASSUME OrderInv, [Next]_vars, Calm, Calm', NEW e \in Ends, Asking(e)
  PROVE  Asking(e)' \/ idle'[e] = 0
  <1>1. /\ Other(e) \in Ends /\ Other(Other(e)) = e /\ Main # Reader
        /\ BufferTypes /\ FateTypes /\ NoOne \notin {Main, Reader}
    BY Others, TypeParts, LinkAssumption DEF OrderInv, TypeInv
  <1>2. /\ Undisturbed(e) /\ Undisturbed(Other(e))
        /\ Undisturbed(e)' /\ Undisturbed(Other(e))'
    BY <1>1 DEF Calm
  <1>3. Control("probe").kind = "probe" /\ Control("answer").kind = "answer"
    BY DEF Control
  <1>4. CASE writing[e] = Main
    BY <1>1, <1>2, <1>4, WriterKept DEF Asking
  <1>5. CASE writing[Other(e)] = Reader
    BY <1>1, <1>2, <1>5, WriterKept DEF Asking
  <1>6. CASE Control("probe") \in OnItsWay(e)
    <2>1. CASE Control("probe") \in OnItsWay(e)'
      BY <2>1 DEF Asking
    <2>2. CASE Receive(Other(e)) /\ Control("probe") = Head(wire[Other(e)])
      <3>1. Head(wire[Other(e)]).kind = "probe" /\ torn[Other(e)] = {}
        BY <1>2, <1>3, <2>2 DEF Undisturbed
      <3>2. Prepare(Other(e), Reader)
        BY <2>2, <3>1 DEF Receive
      <3>3. writing'[Other(e)] = Reader
        <4>1. torn'[Other(e)] = {} /\ torn[Other(e)] = {}
          BY <1>2 DEF Undisturbed
        <4>2. torn' # [torn EXCEPT ![Other(e)] = {Reader, writing[Other(e)]}]
          <5>1. Reader \in {Reader, writing[Other(e)]}
            OBVIOUS
          <5> QED
            BY <1>1, <4>1, <5>1 DEF BufferTypes
        <4>3. writing' = [writing EXCEPT ![Other(e)] = Reader]
          BY <3>2, <4>2 DEF Prepare
        <4> QED
          BY <1>1, <4>3 DEF BufferTypes
      <3> QED
        BY <3>3 DEF Asking
    <2> QED
      BY <1>6, <2>1, <2>2, FrameKept
  <1>7. CASE Control("answer") \in OnItsWay(Other(e))
    <2>1. CASE Control("answer") \in OnItsWay(Other(e))'
      BY <2>1 DEF Asking
    <2>2. CASE Receive(e) /\ Control("answer") = Head(wire[e])
      BY <1>1, <1>3, <2>2 DEF Receive, Heard, FateTypes
    <2> QED
      BY <1>1, <1>7, <2>1, <2>2, FrameKept
  <1> QED
    BY <1>4, <1>5, <1>6, <1>7 DEF Asking

\* When a period is over, no question is open.
LEMMA SettledSilent ==
  ASSUME PatienceInv, Calm, Settled, NEW e \in Ends
  PROVE  ~Asking(e) /\ idle[e] = 0 /\ state[e] = "secured" /\ pending[e] = <<>>
  <1>1. Other(e) \in Ends /\ Other(Other(e)) = e /\ NoOne \notin {Main, Reader}
    BY Others, LinkAssumption
  <1>2. ASSUME NEW o \in Ends
        PROVE  /\ state[o] = "secured" /\ wire[o] = <<>> /\ writing[o] = NoOne
               /\ pending[o] = <<>> /\ awaiting[o] = <<>>
    <2>1. open[o] /\ Undisturbed(o) /\ Patient(o) /\ (state[o] = "retired" => ~open[o])
      BY DEF PatienceInv, Calm
    <2>2. Orderly(o)
      BY <2>1 DEF PatienceInv, OrderInv
    <2> QED
      BY <2>1, <2>2 DEF Settled, Patient, Orderly
  <1>3. ASSUME NEW o \in Ends PROVE OnItsWay(o) = {}
    <2>1. Other(o) \in Ends
      BY Others
    <2> QED
      BY <1>2, <2>1, SmallElements DEF OnItsWay
  <1>4. ~Asking(e)
    BY <1>1, <1>2, <1>3 DEF Asking
  <1>5. idle[e] = 0
    <2>1. Patient(e) /\ idle[e] \in 0 .. Patience /\ Patience \in Nat
      BY TypeParts, LinkAssumption DEF PatienceInv, OrderInv, TypeInv, FateTypes
    <2> QED
      BY <1>4, <2>1 DEF Patient
  <1> QED
    BY <1>2, <1>4, <1>5

\* `pending` is empty or being sent.
LEMMA FlyingNext ==
  ASSUME PatienceInv, [Next]_vars, Calm, Calm', NEW e \in Ends
  PROVE  flying'[e] \/ pending'[e] = <<>>
  <1> DEFINE Goal == flying'[e] \/ pending'[e] = <<>>
  <1>1. /\ BufferTypes /\ (flying[e] \/ pending[e] = <<>>)
        /\ ~broken /\ open[e] /\ Undisturbed(e)'
    BY TypeParts DEF PatienceInv, OrderInv, TypeInv, Patient, Calm
  <1>2. CASE UNCHANGED <<flying, pending>>
    BY <1>1, <1>2
  <1>3. ASSUME NEW x \in Ends, NEW w, NEW f, TransmitOk(x, w, f) \/ TransmitFails(x, w) PROVE Goal
    BY <1>1, <1>3 DEF TransmitOk, TransmitFails, BufferTypes
  <1>4. ASSUME NEW x \in Ends, Answer(x) \/ Probe(x) \/ \E s \in Senders : SendEnd(x, s) PROVE Goal
    BY <1>3, <1>4 DEF Answer, Probe, SendEnd
  <1>5. ASSUME NEW x \in Ends, Connected(x) \/ Sent(x) PROVE Goal
    BY <1>1, <1>5 DEF Connected, Sent, BufferTypes
  <1>6. ASSUME NEW x \in Ends, SendAborted(x) PROVE Goal
    BY <1>1, <1>6 DEF SendAborted, BufferTypes
  <1>7. ASSUME NEW x \in Ends,
               \/ Overloaded(x) \/ Secure(x) \/ Receive(x) \/ Closed(x) \/ Keepalive(x)
               \/ \E s \in Senders : SendBegin(x, s)
        PROVE  Goal
    <2>1. UNCHANGED <<flying, pending>>
      BY <1>7 DEF Overloaded, Secure, Receive, Handshake, Refuse, Decode, Closed, Keepalive,
                  SendBegin, Prepare, buffers
    <2> QED
      BY <1>2, <2>1
  <1>8. CASE Break \/ UNCHANGED vars
    BY <1>2, <1>8 DEF Break, vars, buffers
  <1> QED
    BY <1>4, <1>5, <1>6, <1>7, <1>8 DEF Next

\* On a calm connection an end whose period is over asks, and never gives up.
LEMMA CalmKeepalive ==
  ASSUME PatienceInv, Calm, NEW e \in Ends, Keepalive(e)
  PROVE  Prepare(e, Main) /\ UNCHANGED cancelled
  <1>1. /\ \A o \in Ends : torn[o] = {}
        /\ prompt
    BY DEF Calm, Undisturbed
  <1>2. Settled
    BY <1>1 DEF Keepalive, TimePasses
  <1>3. idle[e] = 0 /\ state[e] = "secured" /\ pending[e] = <<>>
    BY <1>2, SettledSilent
  <1>4. ~GivenUp(e) /\ ~Live(e)
    BY <1>3, LinkAssumption DEF GivenUp, Live
  <1> QED
    BY <1>1, <1>3, <1>4 DEF Keepalive

LEMMA PatientNext ==
  ASSUME PatienceInv, [Next]_vars, Calm, Calm', NEW e \in Ends
  PROVE  Patient(e)'
  <1>1. /\ OrderInv /\ Patient(e) /\ FateTypes /\ BufferTypes /\ Undisturbed(e)'
        /\ idle[e] \in Nat
    BY TypeParts, LinkAssumption DEF PatienceInv, OrderInv, TypeInv, Calm, FateTypes
  <1>2. CASE idle[e] > 0
    BY <1>1, <1>2, AskingKept, FlyingNext DEF Patient
  <1>3. ASSUME NEW x \in Ends, Keepalive(x), idle[e] = 0 PROVE idle'[e] = 0 \/ Asking(e)'
    <2>1. CASE x # e
      BY <1>1, <1>3, <2>1 DEF Keepalive, FateTypes
    <2>2. CASE x = e
      <3>1. writing'[e] = Main
        <4>1. Prepare(e, Main) /\ torn'[e] = {}
          BY <1>1, <1>3, <2>2, CalmKeepalive DEF Undisturbed
        <4> QED
          BY <1>1, <4>1 DEF Prepare, BufferTypes
      <3> QED
        BY <3>1 DEF Asking
    <2> QED
      BY <2>1, <2>2
  <1>4. ASSUME NEW x \in Ends, Receive(x), idle[e] = 0 PROVE idle'[e] = 0
    BY <1>1, <1>4 DEF Receive, Handshake, Refuse, Decode, Heard, fate, FateTypes
  <1>5. ASSUME NEW x \in Ends,
               \/ Connected(x) \/ Overloaded(x) \/ Secure(x) \/ Answer(x) \/ Closed(x)
               \/ Sent(x) \/ SendAborted(x) \/ Probe(x)
               \/ \E s \in Senders : SendBegin(x, s) \/ SendEnd(x, s)
        PROVE  UNCHANGED idle
    BY <1>5 DEF Connected, Overloaded, Secure, Answer, Closed, Sent, SendAborted, Probe,
                SendBegin, SendEnd, fate
  <1>6. Break \/ UNCHANGED vars => UNCHANGED idle
    BY DEF Break, vars, fate
  <1>7. idle[e] = 0 => idle'[e] = 0 \/ Asking(e)'
    BY <1>3, <1>4, <1>5, <1>6 DEF Next
  <1> QED
    BY <1>1, <1>2, <1>7, FlyingNext DEF Patient

LEMMA HealthyNext ==
  ASSUME PatienceInv, [Next]_vars
  PROVE  HealthyStays'
  <1> SUFFICES ASSUME NEW e \in Ends, cancelled'[e], prompt', \A o \in Ends : Undisturbed(o)'
               PROVE  FALSE
    BY DEF HealthyStays, Undisturbed
  <1>1. FateTypes /\ TypeInv /\ prompt /\ \A o \in Ends : Undisturbed(o)
    BY TypeParts, FateSteps, DisturbedForGood DEF PatienceInv, OrderInv, TypeInv
  <1>2. ~cancelled[e]
    BY <1>1 DEF PatienceInv, HealthyStays, Undisturbed
  <1>3. ASSUME NEW x \in Ends, Keepalive(x) PROVE ~cancelled'[e]
    <2>1. Settled /\ open[x] /\ state[x] # "retired"
      BY <1>1, <1>3 DEF Keepalive, TimePasses, Undisturbed
    <2>2. open[x] /\ open[Other(x)]
      BY <2>1 DEF Settled
    <2>3. \A o \in Ends : o = x \/ o = Other(x)
      BY LinkAssumption, Others
    <2>4. Calm
      BY <1>1, <2>2, <2>3 DEF Calm
    <2> QED
      BY <1>2, <1>3, <2>4, CalmKeepalive
  <1>4. ASSUME NEW x \in Ends,
               \/ Connected(x) \/ Overloaded(x) \/ Secure(x) \/ Receive(x) \/ Answer(x) \/ Closed(x)
               \/ Sent(x) \/ SendAborted(x) \/ Probe(x)
               \/ \E s \in Senders : SendBegin(x, s) \/ SendEnd(x, s)
        PROVE  UNCHANGED cancelled
    BY <1>4 DEF Connected, Overloaded, Secure, Receive, Handshake, Refuse, Decode, Answer, Closed,
                Sent, SendAborted, Probe, SendBegin, SendEnd, fate
  <1>5. Break \/ UNCHANGED vars => UNCHANGED cancelled
    BY DEF Break, vars, fate
  <1> QED
    BY <1>2, <1>3, <1>4, <1>5 DEF Next

LEMMA PatienceNext == PatienceInv /\ [Next]_vars => PatienceInv'
  <1> SUFFICES ASSUME PatienceInv, [Next]_vars PROVE PatienceInv'
    OBVIOUS
  <1>1. OrderInv /\ TypeInv /\ OrderInv'
    BY AlwaysOrdered DEF PatienceInv, OrderInv
  <1>2. (\A e \in Ends : state[e] = "retired" => ~open[e])' /\ (broken => ~prompt)'
    BY <1>1, FateSteps DEF PatienceInv
  <1>3. Calm' => \A e \in Ends : Patient(e)'
    BY <1>1, CalmBefore, PatientNext
  <1> QED
    BY <1>1, <1>2, <1>3, HealthyNext DEF PatienceInv

LEMMA PatienceInit == Init => PatienceInv
  BY OrderInit DEF Init, PatienceInv, Patient, HealthyStays

\* On a prompt network no end gives a connection up, whatever is sent and
\* received, until a send fails at once or accesses to a transmitter overlap:
\* every keep-alive is answered before the next.
THEOREM PromptnessRewarded == Spec => []HealthyStays
  <1>1. PatienceInv => HealthyStays
    BY DEF PatienceInv
  <1> QED
    BY <1>1, PatienceInit, PatienceNext, PTL DEF Spec
====
