---------------------------- MODULE EngineProofs ----------------------------
(***************************************************************************)
(* What the policy engine does with the buffers of pdb_msg_pool, with the  *)
(* message flags, with the message it has the TX thread transmit and with  *)
(* the output, proved for every value of the constants.                    *)
(***************************************************************************)
EXTENDS PdStackProofs, FiniteSetTheorems

USE DEF kernelVars, poolVars, dpmVars, ppsVars, peVars, txVars, rxVars, prlVars,
        chipVars, srcVars, worldVars, vars

-----------------------------------------------------------------------------
(* Who owns which buffer: every step moves at most one from one owner to   *)
(* the next (EvalCap moves two), so owners stay distinct and none is lost. *)

Parties == {"pool", "rx", "mail", "msg", "req", "sent"}

Disjoint(O) == \A i, j \in Parties : i # j => O[i] \cap O[j] = {}
Complete(O) == \A b \in Buf : \E i \in Parties : b \in O[i]
Distinct(s) == \A i, j \in 1..Len(s) : i # j => s[i] # s[j]

\* Where the engine may still have a pointer to a message it has freed: from the message
\* PE_SNK_Wait_for_Capabilities does not know to the next capabilities.
Stale == {"HardReset", "HardReset.sent", "TransitionDefault", "Startup", "Discovery", "WaitCap",
          "SourceUnresponsive"}

\* Where it has a message of its own to transmit.
Sending == TxWaits \ {"SelectCap.tx"}

PlacesOK ==
    /\ peMsg # NULL => pc["PE"] \in Stale \cup {"EvalCap"}
    /\ sent # NULL => pc["PE"] \in Sending

BufferInv ==
    /\ Disjoint(Owned) /\ (DpmFrees => Complete(Owned))
    /\ Distinct(peMail)
    /\ PlacesOK

-----------------------------------------------------------------------------
\* A buffer that moves from one owner to another has one owner afterwards.
LEMMA MoveKeeps ==
    ASSUME NEW O, NEW P, NEW i \in Parties, NEW j \in Parties, NEW X, i # j,
           Disjoint(O), X \subseteq O[i],
           P[i] = O[i] \ X, P[j] = O[j] \cup X,
           \A k \in Parties : k # i /\ k # j => P[k] = O[k]
    PROVE  Disjoint(P) /\ (Complete(O) => Complete(P))
  <1>1. ASSUME NEW k \in Parties, NEW l \in Parties, k # l PROVE P[k] \cap P[l] = {}
    <2>1. \A m \in Parties : m # i => O[i] \cap O[m] = {} /\ O[m] \cap O[i] = {}
      BY DEF Disjoint
    <2>2. O[k] \cap O[l] = {}
      BY <1>1 DEF Disjoint
    <2>. QED
      BY <1>1, <2>1, <2>2
  <1>2. ASSUME Complete(O), NEW b \in Buf PROVE \E k \in Parties : b \in P[k]
    <2>1. PICK k \in Parties : b \in O[k]
      BY <1>2 DEF Complete
    <2>2. CASE b \in X
      BY <2>2
    <2>3. CASE b \notin X
      <3>1. b \in P[k]
        BY <2>1, <2>3
      <3>. QED
        BY <3>1
    <2>. QED
      BY <2>2, <2>3
  <1>. QED
    BY <1>1, <1>2 DEF Disjoint, Complete

\* Without its first message a mailbox holds the others.
LEMMA TailElements ==
    ASSUME NEW s \in Seq(Buf), s # <<>>, Distinct(s)
    PROVE  /\ s[1] \in Elements(s) /\ s[1] \in Buf
           /\ Elements(Tail(s)) = Elements(s) \ {s[1]}
           /\ Distinct(Tail(s))
  <1>1. /\ Len(s) \in Nat \ {0} /\ Len(Tail(s)) = Len(s) - 1
        /\ \A i \in 1..Len(Tail(s)) : Tail(s)[i] = s[i + 1]
    OBVIOUS
  <1>2. Elements(Tail(s)) \subseteq Elements(s) \ {s[1]}
    BY <1>1 DEF Elements, Distinct
  <1>3. ASSUME NEW b \in Elements(s), b # s[1] PROVE b \in Elements(Tail(s))
    <2>1. PICK i \in 1..Len(s) : s[i] = b
      BY DEF Elements
    <2>2. i - 1 \in 1..Len(Tail(s)) /\ Tail(s)[i - 1] = b
      BY <1>1, <1>3, <2>1
    <2>. QED
      BY <2>2 DEF Elements
  <1>4. Distinct(Tail(s))
    BY <1>1 DEF Distinct
  <1>5. s[1] \in Elements(s) /\ s[1] \in Buf
    BY <1>1 DEF Elements
  <1>. QED
    BY <1>2, <1>3, <1>4, <1>5

\* A mailbox without the message that is posted to it has room for it, and holds it last.
LEMMA PostElements ==
    ASSUME NEW s \in Seq(Buf), NEW b \in Buf, Distinct(s), b \notin Elements(s)
    PROVE  /\ Post(s, b) = Append(s, b)
           /\ Elements(Post(s, b)) = Elements(s) \cup {b}
           /\ Distinct(Post(s, b))
  <1>1. Len(s) < Cardinality(Buf)
    <2>1. IsFiniteSet(Buf) /\ IsFiniteSet(Buf \ {b}) /\ Cardinality(Buf) \in Nat
          /\ Cardinality(Buf \ {b}) = Cardinality(Buf) - 1
      BY BufAssumption, FS_RemoveElement, FS_CardinalityType
    <2>2. s \in [1..Len(s) -> Buf \ {b}] /\ Len(s) \in Nat
      BY DEF Elements
    <2>3. IsFiniteSet(1..Len(s)) /\ Cardinality(1..Len(s)) = Len(s)
      <3>1. 1 \in Int /\ Len(s) \in Int
        BY <2>2
      <3>2. /\ IsFiniteSet(1..Len(s))
            /\ Cardinality(1..Len(s)) = IF 1 > Len(s) THEN 0 ELSE Len(s) - 1 + 1
        BY <3>1, FS_Interval, Zenon
      <3>. QED
        BY <2>2, <3>2
    <2>4. \A i, j \in 1..Len(s) : s[i] = s[j] => i = j
      BY DEF Distinct
    <2>5. ~(Cardinality(Buf \ {b}) < Cardinality(1..Len(s)))
      <3>1. SUFFICES ASSUME Cardinality(Buf \ {b}) < Cardinality(1..Len(s)) PROVE FALSE
        OBVIOUS
      <3>2. PICK x, y \in 1..Len(s) : x # y /\ s[x] = s[y]
        BY <2>1, <2>2, <2>3, <3>1, FS_PigeonHole
      <3>. QED
        BY <3>2, <2>4
    <2>. QED
      BY <2>1, <2>2, <2>3, <2>5
  <1>2. Post(s, b) = Append(s, b)
    BY <1>1 DEF Post
  <1>3. /\ Len(Append(s, b)) = Len(s) + 1 /\ Len(s) \in Nat
        /\ \A i \in 1..Len(s) : Append(s, b)[i] = s[i]
        /\ Append(s, b)[Len(s) + 1] = b
    OBVIOUS
  <1>4. Elements(Append(s, b)) = Elements(s) \cup {b}
    <2>1. Elements(Append(s, b)) \subseteq Elements(s) \cup {b}
      BY <1>3 DEF Elements
    <2>2. Elements(s) \subseteq Elements(Append(s, b))
      BY <1>3 DEF Elements
    <2>3. b \in Elements(Append(s, b))
      BY <1>3 DEF Elements
    <2>. QED
      BY <2>1, <2>2, <2>3
  <1>5. Distinct(Append(s, b))
    <2>. SUFFICES ASSUME NEW i \in 1..Len(s) + 1, NEW j \in 1..Len(s) + 1, i # j
                  PROVE  Append(s, b)[i] # Append(s, b)[j]
      BY <1>3 DEF Distinct
    <2>1. \A k \in 1..Len(s) : s[k] # b
      BY DEF Elements
    <2>2. CASE i \in 1..Len(s) /\ j \in 1..Len(s)
      BY <1>3, <2>2 DEF Distinct
    <2>3. CASE i = Len(s) + 1 \/ j = Len(s) + 1
      BY <1>3, <2>1, <2>3
    <2>. QED
      BY <1>3, <2>2, <2>3
  <1>. QED
    BY <1>2, <1>4, <1>5

\* The owners, one by one.
LEMMA OwnersAre ==
    /\ DOMAIN Owned = Parties
    /\ Owned["pool"] = pool
    /\ Owned["rx"] = (IF pc["RX"] = "WaitPHY" THEN {} ELSE {rxMsg})
    /\ Owned["mail"] = Elements(peMail)
    /\ Owned["msg"] = (IF pc["PE"] \in {"EvalCap", "Ready"} THEN {peMsg} \ {NULL} ELSE {})
    /\ Owned["req"] = {req} \ {NULL} /\ Owned["sent"] = {sent} \ {NULL}
  BY DEF Owned, Parties

-----------------------------------------------------------------------------
\* Where no buffer moves and the engine's pointers are where they may be, the invariant is
\* kept.
LEMMA NothingMoves ==
    ASSUME BufferInv, Owned' = Owned, peMail' = peMail, PlacesOK'
    PROVE  BufferInv'
  BY DEF BufferInv, Disjoint, Complete, Distinct

\* X goes from owner i to owner j.
Moves(i, j, X) ==
    /\ X \subseteq Owned[i]
    /\ \A k \in Parties : Owned'[k] = IF k = i THEN Owned[i] \ X
                                      ELSE IF k = j THEN Owned[j] \cup X ELSE Owned[k]

\* Where one buffer moves, or none, it is kept as well.
LEMMA OneMoves ==
    ASSUME BufferInv, NEW i \in Parties, NEW j \in Parties, i # j, NEW X, Moves(i, j, X),
           Distinct(peMail'), PlacesOK'
    PROVE  BufferInv'
  <1>1. Disjoint(Owned') /\ (Complete(Owned) => Complete(Owned'))
    <2>1. /\ Owned'[i] = Owned[i] \ X /\ Owned'[j] = Owned[j] \cup X /\ X \subseteq Owned[i]
          /\ \A k \in Parties : k # i /\ k # j => Owned'[k] = Owned[k]
      BY DEF Moves
    <2>2. Disjoint(Owned)
      BY DEF BufferInv
    <2>. QED
      BY <2>1, <2>2, MoveKeeps, SMTT(20) DEF Disjoint, Complete
  <1>. QED
    BY <1>1 DEF BufferInv, Disjoint, Complete, Distinct

\* Where the engine goes.
LEMMA PeAt ==
    ASSUME TypeInv, NEW s, Goto(s)
    PROVE  pc'["PE"] = s /\ pc'["RX"] = pc["RX"]
  BY DEF TypeInv, TypeOK, KernelOK, PcOK, Goto, Thread, Prl

\* The engine goes elsewhere and leaves the buffers where they are.
LEMMA PeLeaves ==
    ASSUME TypeInv, BufferInv, NEW s, Goto(s), pc["PE"] \notin Sending \cup {"EvalCap"},
           UNCHANGED <<pool, rxMsg, peMsg, peMail, req, sent>>,
           peMsg = NULL \/ s \in Stale
    PROVE  BufferInv'
  <1>1. pc'["PE"] = s /\ pc'["RX"] = pc["RX"]
    BY PeAt
  <1>2. sent = NULL
    BY DEF BufferInv, PlacesOK
  <1>3. pc["PE"] = "Ready" => peMsg = NULL
    BY DEF BufferInv, PlacesOK, Stale
  <1>4. s \in {"EvalCap", "Ready"} => peMsg = NULL
    BY DEF Stale
  <1>5. Owned' = Owned
    BY <1>1, <1>3, <1>4 DEF Owned
  <1>6. PlacesOK'
    BY <1>1, <1>2 DEF PlacesOK
  <1>. QED
    BY <1>5, <1>6, NothingMoves

\* It frees the message it has fetched.
LEMMA PeFrees ==
    ASSUME TypeInv, BufferInv, NEW s, Goto(s), pc["PE"] \notin Sending \cup {"EvalCap"},
           peMail # <<>>, peMail' = Tail(peMail), Free(peMail[1]),
           UNCHANGED <<rxMsg, req, sent>>,
           peMsg' = NULL \/ s \in Stale
    PROVE  BufferInv'
  <1>1. pc'["PE"] = s /\ pc'["RX"] = pc["RX"]
    BY PeAt
  <1>2. sent = NULL /\ (pc["PE"] = "Ready" => peMsg = NULL)
    BY DEF BufferInv, PlacesOK, Stale
  <1>3. s \in {"EvalCap", "Ready"} => peMsg' = NULL
    BY DEF Stale
  <1>4. /\ peMail[1] \in Elements(peMail) /\ Elements(peMail') = Elements(peMail) \ {peMail[1]}
        /\ Distinct(peMail')
    BY TailElements DEF TypeInv, TypeOK, PeOK, BufferInv
  <1>5. Moves("mail", "pool", {peMail[1]})
    <2>1. Owned'["mail"] = Owned["mail"] \ {peMail[1]}
      BY <1>4 DEF Owned
    <2>2. Owned'["pool"] = Owned["pool"] \cup {peMail[1]}
      BY DEF Owned, Free
    <2>3. /\ Owned'["rx"] = Owned["rx"] /\ Owned'["req"] = Owned["req"]
          /\ Owned'["sent"] = Owned["sent"]
      BY <1>1 DEF Owned
    <2>4. Owned'["msg"] = Owned["msg"]
      BY <1>1, <1>2, <1>3 DEF Owned
    <2>5. {peMail[1]} \subseteq Owned["mail"]
      BY <1>4 DEF Owned
    <2>. QED
      BY <2>1, <2>2, <2>3, <2>4, <2>5 DEF Moves, Parties
  <1>6. PlacesOK'
    BY <1>1, <1>2 DEF PlacesOK
  <1>7. "mail" \in Parties /\ "pool" \in Parties
    BY DEF Parties
  <1>. QED
    BY <1>4, <1>5, <1>6, <1>7, OneMoves

\* It keeps the capabilities it has fetched.
LEMMA PeKeeps ==
    ASSUME TypeInv, BufferInv, Goto("EvalCap"), pc["PE"] \notin Sending \cup {"EvalCap"},
           peMail # <<>>, peMail' = Tail(peMail), peMsg' = peMail[1],
           UNCHANGED <<pool, rxMsg, req, sent>>
    PROVE  BufferInv'
  <1>1. pc'["PE"] = "EvalCap" /\ pc'["RX"] = pc["RX"]
    BY PeAt
  <1>2. sent = NULL /\ (pc["PE"] = "Ready" => peMsg = NULL)
    BY DEF BufferInv, PlacesOK, Stale
  <1>4. /\ peMail[1] \in Elements(peMail) /\ Elements(peMail') = Elements(peMail) \ {peMail[1]}
        /\ Distinct(peMail') /\ peMail[1] \in Buf
    BY TailElements DEF TypeInv, TypeOK, PeOK, BufferInv
  <1>5. Moves("mail", "msg", {peMail[1]})
    <2>1. Owned'["mail"] = Owned["mail"] \ {peMail[1]}
      BY <1>4 DEF Owned
    <2>2. Owned["msg"] = {} /\ Owned'["msg"] = {peMail[1]}
      BY <1>1, <1>2, <1>4, BufAssumption DEF Owned
    <2>3. /\ Owned'["rx"] = Owned["rx"] /\ Owned'["req"] = Owned["req"]
          /\ Owned'["sent"] = Owned["sent"]
          /\ Owned'["pool"] = Owned["pool"]
      BY <1>1 DEF Owned
    <2>5. {peMail[1]} \subseteq Owned["mail"]
      BY <1>4 DEF Owned
    <2>. QED
      BY <2>1, <2>2, <2>3, <2>5 DEF Moves, Parties
  <1>6. PlacesOK'
    BY <1>1, <1>2 DEF PlacesOK
  <1>7. "mail" \in Parties /\ "msg" \in Parties
    BY DEF Parties
  <1>. QED
    BY <1>4, <1>5, <1>6, <1>7, OneMoves

\* It takes a free buffer for a message of its own,
LEMMA PeTransmits ==
    ASSUME TypeInv, BufferInv, NEW s, NEW type, NEW wait, Transmit(s, type, wait),
           s \notin Stale \cup Sending \cup {"EvalCap", "Ready"}, wait \in Sending
    PROVE  BufferInv'
  <1>0. /\ pc["PE"] = s /\ Goto(wait)
        /\ UNCHANGED <<peMsg, peMail, req, rxMsg>>
    BY DEF Transmit, At
  <1>1. pc'["PE"] = wait /\ pc'["RX"] = pc["RX"]
    BY <1>0, PeAt
  <1>2. sent = NULL /\ peMsg = NULL
    BY <1>0 DEF BufferInv, PlacesOK
  <1>3. PICK b \in pool : pool' = pool \ {b} /\ sent' = b
    BY DEF Transmit
  <1>4. b # NULL
    BY BufAssumption DEF TypeInv, TypeOK, PoolOK
  <1>5. Moves("pool", "sent", {b})
    <2>1. Owned'["pool"] = Owned["pool"] \ {b} /\ {b} \subseteq Owned["pool"]
      BY <1>3 DEF Owned
    <2>2. Owned'["sent"] = Owned["sent"] \cup {b}
      BY <1>2, <1>3, <1>4 DEF Owned
    <2>3. /\ Owned'["rx"] = Owned["rx"] /\ Owned'["req"] = Owned["req"]
          /\ Owned'["mail"] = Owned["mail"]
      BY <1>0, <1>1 DEF Owned
    <2>4. Owned'["msg"] = Owned["msg"]
      BY <1>0, <1>2 DEF Owned
    <2>. QED
      BY <2>1, <2>2, <2>3, <2>4 DEF Moves, Parties
  <1>6. PlacesOK'
    BY <1>0, <1>1, <1>2 DEF PlacesOK
  <1>7. "pool" \in Parties /\ "sent" \in Parties /\ Distinct(peMail')
    BY <1>0 DEF Parties, BufferInv
  <1>. QED
    BY <1>5, <1>6, <1>7, OneMoves

\* and frees it when its transmission has ended.
LEMMA PeTransmitted ==
    ASSUME TypeInv, BufferInv, NEW s \in Sending, NEW done, NEW failed,
           AfterTransmit(s, done, failed)
    PROVE  BufferInv'
  <1>0. /\ pc["PE"] = s /\ sent' = NULL /\ pool' = pool \cup {sent}
        /\ UNCHANGED <<peMsg, peMail, req, rxMsg>>
        /\ \E r : Goto(r)
    BY DEF AfterTransmit, Woken, At, Free
  <1>1. pc'["RX"] = pc["RX"]
    BY <1>0, PeAt
  <1>2. sent # NULL /\ peMsg = NULL
    BY <1>0 DEF BufferInv, PlacesOK, TypeInv, PointersOK, Sending, Stale, TxWaits
  <1>5. Moves("sent", "pool", {sent})
    <2>1. Owned'["pool"] = Owned["pool"] \cup {sent}
      BY <1>0 DEF Owned
    <2>2. Owned'["sent"] = Owned["sent"] \ {sent} /\ {sent} \subseteq Owned["sent"]
      BY <1>0, <1>2 DEF Owned
    <2>3. /\ Owned'["rx"] = Owned["rx"] /\ Owned'["req"] = Owned["req"]
          /\ Owned'["mail"] = Owned["mail"]
      BY <1>0, <1>1 DEF Owned
    <2>4. Owned'["msg"] = Owned["msg"]
      BY <1>0, <1>2 DEF Owned
    <2>. QED
      BY <2>1, <2>2, <2>3, <2>4 DEF Moves, Parties
  <1>6. PlacesOK'
    BY <1>0, <1>2 DEF PlacesOK
  <1>7. "pool" \in Parties /\ "sent" \in Parties /\ Distinct(peMail')
    BY <1>0 DEF Parties, BufferInv
  <1>. QED
    BY <1>5, <1>6, <1>7, OneMoves

\* The device policy manager takes a buffer for the first Request, and gives that of the
\* capabilities back, or keeps it for ever.
LEMMA PeEvaluates == TypeInv /\ BufferInv /\ EvalCap => BufferInv'
  <1>. SUFFICES ASSUME TypeInv, BufferInv, EvalCap PROVE BufferInv'
    OBVIOUS
  <1>0. /\ pc["PE"] = "EvalCap" /\ pc'["PE"] = "SelectCap" /\ pc'["RX"] = pc["RX"]
        /\ peMsg' = NULL /\ UNCHANGED <<peMail, sent, rxMsg>>
    BY PeAt DEF EvalCap, At
  <1>1. sent = NULL
    BY <1>0 DEF BufferInv, PlacesOK, Sending, TxWaits
  <1>2. /\ req' \in (IF req = NULL THEN pool ELSE {req})
        /\ pool' = (pool \ {req'}) \cup (IF peMsg # NULL /\ DpmFrees THEN {peMsg} ELSE {})
    BY DEF EvalCap
  <1>3. req' # NULL
    BY <1>2, BufAssumption DEF TypeInv, TypeOK, PoolOK
  <1>4. /\ Owned["pool"] = pool /\ Owned'["pool"] = pool'
        /\ Owned["msg"] = {peMsg} \ {NULL} /\ Owned'["msg"] = {}
        /\ Owned["req"] = {req} \ {NULL} /\ Owned'["req"] = {req'}
        /\ \A k \in {"rx", "mail", "sent"} : Owned'[k] = Owned[k]
    BY <1>0, <1>3 DEF Owned
  <1>5. Disjoint(Owned) /\ (DpmFrees => Complete(Owned))
    BY DEF BufferInv
  <1>6. pool' = (pool \ ({req'} \ {req})) \cup (IF DpmFrees THEN {peMsg} \ {NULL} ELSE {})
    <2>1. req # NULL => req \notin pool
      <3>1. Owned["req"] \cap Owned["pool"] = {}
        BY <1>5 DEF Disjoint, Parties
      <3>. QED
        BY <3>1, <1>4
    <2>. QED
      BY <1>2, <1>3, <2>1
  <1>7. /\ Disjoint(Owned')
        /\ DpmFrees => Complete(Owned')
    <2>1. ASSUME NEW i \in Parties, NEW j \in Parties, i # j PROVE Owned'[i] \cap Owned'[j] = {}
      <3>1. /\ \A k \in Parties \ {"pool"} :
                   Owned["pool"] \cap Owned[k] = {} /\ Owned[k] \cap Owned["pool"] = {}
            /\ \A k \in Parties \ {"msg"} :
                   Owned["msg"] \cap Owned[k] = {} /\ Owned[k] \cap Owned["msg"] = {}
            /\ \A k \in Parties \ {"req"} :
                   Owned["req"] \cap Owned[k] = {} /\ Owned[k] \cap Owned["req"] = {}
        BY <1>5 DEF Disjoint, Parties
      <3>2. Owned[i] \cap Owned[j] = {}
        BY <1>5, <2>1 DEF Disjoint
      <3>3. /\ Owned'["req"] \subseteq Owned["req"] \cup (Owned["pool"] \ Owned'["pool"])
            /\ Owned'["pool"] \subseteq Owned["pool"] \cup Owned["msg"]
            /\ Owned'["req"] \cap Owned'["pool"] = {}
        <4>1. req' \notin pool'
          BY <1>2, <1>3, <1>4, <3>1 DEF Parties
        <4>. QED
          BY <1>2, <1>4, <4>1
      <3>4. CASE i \in {"rx", "mail", "sent"} /\ j \in {"rx", "mail", "sent"}
        BY <3>2, <3>4, <1>4
      <3>5. CASE i \in {"pool", "req", "msg"} /\ j \in {"rx", "mail", "sent"}
        BY <3>1, <3>3, <3>5, <1>4 DEF Parties
      <3>6. CASE j \in {"pool", "req", "msg"} /\ i \in {"rx", "mail", "sent"}
        BY <3>1, <3>3, <3>6, <1>4 DEF Parties
      <3>7. CASE i \in {"pool", "req", "msg"} /\ j \in {"pool", "req", "msg"}
        BY <3>3, <3>7, <2>1, <1>4
      <3>. QED
        BY <3>4, <3>5, <3>6, <3>7 DEF Parties
    <2>2. ASSUME DpmFrees, NEW b \in Buf PROVE \E k \in Parties : b \in Owned'[k]
      <3>1. PICK k \in Parties : b \in Owned[k]
        BY <1>5, <2>2 DEF Complete
      <3>2. CASE k \in {"rx", "mail", "sent"}
        BY <3>1, <3>2, <1>4
      <3>3. CASE k = "pool"
        <4>1. b \in Owned'["pool"] \/ b \in Owned'["req"]
          BY <3>1, <3>3, <1>2, <1>4
        <4>. QED
          BY <4>1 DEF Parties
      <3>4. CASE k = "msg"
        <4>1. b \in Owned'["pool"]
          BY <3>1, <3>4, <1>4, <1>6, <2>2
        <4>. QED
          BY <4>1 DEF Parties
      <3>5. CASE k = "req"
        <4>1. b \in Owned'["req"]
          BY <3>1, <3>5, <1>2, <1>4
        <4>. QED
          BY <4>1 DEF Parties
      <3>. QED
        BY <3>2, <3>3, <3>4, <3>5 DEF Parties
    <2>. QED
      BY <2>1, <2>2 DEF Disjoint, Complete
  <1>8. PlacesOK' /\ Distinct(peMail')
    BY <1>0, <1>1 DEF PlacesOK, BufferInv
  <1>. QED
    BY <1>7, <1>8 DEF BufferInv, Disjoint, Complete, Distinct

-----------------------------------------------------------------------------
\* It fetches a message and frees it, where it has no message of its own.
LEMMA PeFetches ==
    ASSUME TypeInv, BufferInv, NEW s, Goto(s), pc["PE"] \notin Sending \cup Stale \cup {"EvalCap"},
           FetchAndFree, UNCHANGED <<rxMsg, req, sent>>
    PROVE  BufferInv'
  <1>1. peMsg = NULL
    BY DEF BufferInv, PlacesOK
  <1>2. CASE peMail = <<>>
    BY <1>1, <1>2, PeLeaves DEF FetchAndFree
  <1>3. CASE peMail # <<>>
    BY <1>3, PeFrees DEF FetchAndFree
  <1>. QED
    BY <1>2, <1>3

\* It leaves a place where it has no message.
LEMMA PeGoes ==
    ASSUME TypeInv, BufferInv, NEW s, Goto(s), pc["PE"] \notin Sending \cup {"EvalCap"},
           UNCHANGED <<pool, rxMsg, peMsg, peMail, req, sent>>,
           pc["PE"] \notin Stale \/ s \in Stale
    PROVE  BufferInv'
  <1>1. pc["PE"] \notin Stale => peMsg = NULL
    BY DEF BufferInv, PlacesOK
  <1>. QED
    BY <1>1, PeLeaves

\* Every step of the engine keeps the buffers in good hands.
LEMMA PeBuffers ==
    ASSUME TypeInv, BufferInv, PeNext
    PROVE  BufferInv'
  <1>. USE DEF Leave, At
  <1>p. \A s \in {"Startup", "Discovery", "WaitCap", "SelectCap", "SelectCap.tx", "SelectCap.rsp",
                  "TransitionSink", "Ready", "SendSoftReset.rsp", "ChunkReceived",
                  "NotSupportedReceived", "HardReset", "HardReset.sent", "TransitionDefault"} :
           s \notin Sending \cup {"EvalCap"}
    BY DEF Sending, TxWaits
  <1>q. \A s \in {"SelectCap", "SelectCap.tx", "SelectCap.rsp", "TransitionSink", "Ready",
                  "SendSoftReset.rsp", "ChunkReceived", "NotSupportedReceived"} : s \notin Stale
    BY DEF Stale
  <1>s. {"Discovery", "WaitCap", "HardReset", "HardReset.sent", "TransitionDefault", "Startup",
         "SourceUnresponsive"} \subseteq Stale
    BY DEF Stale
  <1>r. ASSUME NEW s, s \notin Sending \cup {"EvalCap"}, OnReset(s) PROVE BufferInv'
    BY <1>r, <1>s, PeGoes DEF OnReset, Woken
  <1>w. \A s \in {"GetSourceCap", "GiveSinkCap", "SoftReset", "SendSoftReset", "SendNotSupported"} :
           s \notin Stale \cup Sending \cup {"EvalCap", "Ready"}
    BY DEF Stale, Sending, TxWaits
  <1>x. {"GetSourceCap.tx", "GiveSinkCap.tx", "SoftReset.tx", "SendSoftReset.tx",
         "SendNotSupported.tx"} \subseteq Sending
    BY DEF Sending, TxWaits
  <1>1. CASE Startup \/ Discovery \/ HardReset \/ HardResetSent \/ TransitionDefault
    <2>1. CASE Startup
      BY <2>1, <1>p, <1>s, PeGoes DEF Startup
    <2>2. CASE Discovery
      BY <2>2, <1>p, <1>s, PeGoes DEF Discovery
    <2>3. CASE HardReset
      BY <2>3, <1>p, <1>s, PeGoes DEF HardReset
    <2>4. CASE HardResetSent
      BY <2>4, <1>p, <1>s, PeGoes DEF HardResetSent, Woken
    <2>5. CASE TransitionDefault
      BY <2>5, <1>p, <1>s, PeGoes DEF TransitionDefault
    <2>. QED
      BY <1>1, <2>1, <2>2, <2>3, <2>4, <2>5
  <1>2. CASE SelectCap \/ SelectCapSent \/ NotSupportedReceived \/ ChunkReceived
    <2>1. CASE SelectCap
      BY <2>1, <1>p, <1>q, PeGoes DEF SelectCap
    <2>2. CASE SelectCapSent
      BY <2>2, <1>p, <1>q, <1>r, PeGoes DEF SelectCapSent, Woken
    <2>3. CASE NotSupportedReceived
      BY <2>3, <1>p, <1>q, PeGoes DEF NotSupportedReceived
    <2>4. CASE ChunkReceived
      BY <2>4, <1>p, <1>r DEF ChunkReceived
    <2>. QED
      BY <1>2, <2>1, <2>2, <2>3, <2>4
  <1>3. CASE WaitCap
    <2>1. CASE OnReset("WaitCap")
      BY <2>1, <1>p, <1>r
    <2>2. CASE Woken("WaitCap") /\ Goto("WaitCap") /\ Leave
      BY <2>2, <1>p, <1>s, PeGoes DEF Woken
    <2>3. CASE /\ Woken("WaitCap") /\ Received # "none" /\ peMail' = Tail(peMail)
               /\ peMsg' = peMail[1] /\ Goto("EvalCap")
               /\ UNCHANGED <<pool, rxMsg, req, sent>>
      <3>1. peMail # <<>>
        BY <2>3 DEF Received
      <3>. QED
        BY <2>3, <3>1, <1>p, PeKeeps DEF Woken
    <2>4. CASE /\ Woken("WaitCap") /\ Received # "none" /\ FetchAndFree
               /\ Goto("SoftReset") /\ UNCHANGED <<rxMsg, req, sent>>
      <3>1. peMail # <<>>
        BY <2>4 DEF Received
      <3>. QED
        BY <2>4, <3>1, <1>p, PeFrees DEF Woken, FetchAndFree
    <2>5. CASE /\ Woken("WaitCap") /\ Received # "none" /\ peMail' = Tail(peMail)
               /\ Free(peMail[1]) /\ Goto("HardReset")
               /\ UNCHANGED <<rxMsg, req, sent>>
      <3>1. peMail # <<>>
        BY <2>5 DEF Received
      <3>. QED
        BY <2>5, <3>1, <1>p, <1>s, PeFrees DEF Woken
    <2>. QED
      BY <1>3, <2>1, <2>2, <2>3, <2>4, <2>5 DEF WaitCap
  <1>4. CASE EvalCap
    BY <1>4, PeEvaluates
  <1>5. CASE SelectCapReply
    BY <1>5, <1>p, <1>q, <1>r, PeFetches DEF SelectCapReply, Woken
  <1>6. CASE TransitionSink
    BY <1>6, <1>p, <1>q, <1>r, PeFetches DEF TransitionSink, Woken
  <1>7. CASE Ready
    <2>1. CASE OnReset("Ready")
      BY <2>1, <1>p, <1>r
    <2>2. CASE Woken("Ready") /\ Goto("HardReset") /\ Leave
      BY <2>2, <1>p, <1>s, PeGoes DEF Woken
    <2>3. CASE ReadyStartAms
      <3>1. pc["PE"] = "Ready" /\ peMsg = NULL
        BY <2>3, <1>q DEF ReadyStartAms, BufferInv, PlacesOK
      <3>2. UNCHANGED <<pool, rxMsg, peMsg, peMail, req, sent>> /\ \E s : Goto(s)
        BY <2>3, <3>1 DEF ReadyStartAms, ReadyStay
      <3>. QED
        BY <3>1, <3>2, <1>p, <1>q, PeGoes
    <2>4. CASE ReadyMessage
      <3>0. pc["PE"] = "Ready" /\ UNCHANGED <<rxMsg, req, sent>> /\ Goto(AfterReady(Received))
        BY <2>4 DEF ReadyMessage, ReadyStay, Woken
      <3>1. CASE Received \in {"SourceCaps", "SourceCapsPps"}
        <4>1. peMail # <<>>
          BY <3>1 DEF Received
        <4>2. AfterReady(Received) = "EvalCap"
          <5>1. ASSUME NEW t, t \in {"SourceCaps", "SourceCapsPps"} PROVE AfterReady(t) = "EvalCap"
            BY <5>1, Zenon DEF AfterReady
          <5>. QED
            BY <3>1, <5>1
        <4>3. peMail' = Tail(peMail) /\ peMsg' = peMail[1] /\ pool' = pool
          BY <2>4, <3>1 DEF ReadyMessage
        <4>. QED
          BY <3>0, <4>1, <4>2, <4>3, <1>p, PeKeeps
      <3>2. CASE Received \notin {"SourceCaps", "SourceCapsPps"}
        <4>1. FetchAndFree
          BY <2>4, <3>2 DEF ReadyMessage
        <4>. QED
          BY <3>0, <4>1, <1>p, <1>q, PeFetches
      <3>. QED
        BY <3>1, <3>2
    <2>. QED
      BY <1>7, <2>1, <2>2, <2>3, <2>4 DEF Ready
  <1>8. CASE GetSourceCap \/ GiveSinkCap \/ SoftReset \/ SendNotSupported
    BY <1>8, <1>w, <1>x, PeTransmits, PeTransmitted
    DEF GetSourceCap, GiveSinkCap, SoftReset, SendNotSupported
  <1>9. CASE SendSoftReset
    <2>1. CASE \/ Transmit("SendSoftReset", "SoftReset", "SendSoftReset.tx")
               \/ AfterTransmit("SendSoftReset.tx", "SendSoftReset.rsp", "HardReset")
      BY <2>1, <1>w, <1>x, PeTransmits, PeTransmitted
    <2>2. CASE OnReset("SendSoftReset.rsp")
      BY <2>2, <1>p, <1>r
    <2>3. CASE /\ Woken("SendSoftReset.rsp") /\ FetchAndFree /\ Goto(AfterSoftReset(Received))
               /\ UNCHANGED <<rxMsg, req, sent>>
      BY <2>3, <1>p, <1>q, PeFetches DEF Woken
    <2>. QED
      BY <1>9, <2>1, <2>2, <2>3 DEF SendSoftReset
  <1>10. CASE SourceUnresponsive \/ PeAllocFails
    <2>1. UNCHANGED <<pc, pool, rxMsg, peMsg, peMail, req, sent>>
      BY <1>10 DEF SourceUnresponsive, PeAllocFails
    <2>. QED
      BY <2>1, NothingMoves DEF Owned, BufferInv, PlacesOK
  <1>. QED
    BY <1>1, <1>2, <1>3, <1>4, <1>5, <1>6, <1>7, <1>8, <1>9, <1>10 DEF PeNext

-----------------------------------------------------------------------------
\* What a step does that moves neither the engine nor RX nor a buffer.
BuffersStay == /\ pc'["PE"] = pc["PE"] /\ pc'["RX"] = pc["RX"]
               /\ UNCHANGED <<pool, rxMsg, peMsg, peMail, req, sent>>

\* Such a step keeps the invariant.
LEMMA StayKeeps == BufferInv /\ BuffersStay => BufferInv'
  BY NothingMoves DEF BuffersStay, Owned, BufferInv, PlacesOK

\* Every step of the RX thread keeps the buffers in good hands: it takes one from the
\* pool, and gives it back or posts it to the engine.
LEMMA RxBuffers ==
    ASSUME TypeInv, BufferInv, RxNext
    PROVE  BufferInv'
  <1>. USE DEF RxFrame
  <1>0. PcOK
    BY DEF TypeInv, TypeOK, KernelOK
  <1>g. ASSUME NEW s, pc' = [pc EXCEPT !["RX"] = s] PROVE pc'["PE"] = pc["PE"] /\ pc'["RX"] = s
    BY <1>0, <1>g DEF PcOK, Thread, Prl
  <1>p. {"pool", "rx", "mail"} \subseteq Parties
    BY DEF Parties
  <1>r. pc["RX"] # "WaitPHY" => rxMsg \in Buf /\ rxMsg # NULL
    BY BufAssumption DEF TypeInv, TypeOK, PrlOK, PointersOK
  <1>1. CASE RxWaitPHY
    <2>1. CASE UNCHANGED <<pc, pool, rxMsg>>
      BY <1>1, <2>1, StayKeeps DEF RxWaitPHY, BuffersStay
    <2>2. CASE (\E b \in pool : pool' = pool \ {b} /\ rxMsg' = b) /\ StartI2C("RX", "Read")
      <3>1. PICK b \in pool : pool' = pool \ {b} /\ rxMsg' = b
        BY <2>2
      <3>2. pc["RX"] = "WaitPHY" /\ pc'["RX"] = "Read" /\ pc'["PE"] = pc["PE"]
        BY <1>1, <2>2, <1>g DEF RxWaitPHY, RxRuns, StartI2C
      <3>3. UNCHANGED <<peMsg, peMail, req, sent>>
        BY <1>1 DEF RxWaitPHY
      <3>4. Moves("pool", "rx", {b})
        BY <3>1, <3>2, <3>3 DEF Moves, Parties, Owned
      <3>5. PlacesOK' /\ Distinct(peMail')
        BY <3>2, <3>3 DEF BufferInv, PlacesOK
      <3>. QED
        BY <3>4, <3>5, <1>p, OneMoves
    <2>. QED
      BY <1>1, <2>1, <2>2 DEF RxWaitPHY
  <1>d. ASSUME RxDrop, pc["RX"] # "WaitPHY" PROVE BufferInv'
    <2>1. pc'["RX"] = "WaitPHY" /\ pc'["PE"] = pc["PE"]
      BY <1>d, <1>g DEF RxDrop, RxGoto
    <2>2. UNCHANGED <<peMsg, peMail, req, sent>> /\ pool' = pool \cup {rxMsg}
      BY <1>d DEF RxDrop, Free
    <2>3. Moves("rx", "pool", {rxMsg})
      BY <2>1, <2>2, <1>d DEF Moves, Parties, Owned
    <2>4. PlacesOK' /\ Distinct(peMail')
      BY <2>1, <2>2 DEF BufferInv, PlacesOK
    <2>. QED
      BY <2>3, <2>4, <1>p, OneMoves
  <1>2. CASE RxAllocFails \/ Block("RX")
    <2>1. BuffersStay
      BY <1>2 DEF RxAllocFails, Block, BuffersStay
    <2>. QED
      BY <2>1, StayKeeps
  <1>3. CASE RxRead
    <2>1. \E s : pc' = [pc EXCEPT !["RX"] = s] /\ s # "WaitPHY"
      BY <1>3 DEF RxRead, TellTxAndYield, RxGoto
    <2>2. pc'["PE"] = pc["PE"] /\ pc'["RX"] # "WaitPHY" /\ pc["RX"] # "WaitPHY"
      BY <1>3, <2>1, <1>g DEF RxRead, RxRuns
    <2>3. UNCHANGED <<pool, rxMsg, peMsg, peMail, req, sent>>
      BY <1>3 DEF RxRead
    <2>. QED
      BY <2>2, <2>3, NothingMoves DEF Owned, BufferInv, PlacesOK
  <1>4. CASE RxReset
    <2>0. pc["RX"] # "WaitPHY"
      BY <1>4 DEF RxReset, RxRuns
    <2>1. CASE RxDrop
      BY <2>0, <2>1, <1>d
    <2>2. CASE RxGoto("CheckMessageID") /\ UNCHANGED <<poolVars, peVars, rxVars>>
      <3>0. pc' = [pc EXCEPT !["RX"] = "CheckMessageID"]
        BY <2>2 DEF RxGoto
      <3>1. pc'["PE"] = pc["PE"] /\ pc'["RX"] # "WaitPHY"
        BY <3>0, <1>0 DEF PcOK, Thread, Prl
      <3>. QED
        BY <2>0, <2>2, <3>1, NothingMoves DEF Owned, BufferInv, PlacesOK
    <2>. QED
      BY <1>4, <2>1, <2>2 DEF RxReset
  <1>5. CASE RxCheckMessageID
    <2>0. pc["RX"] # "WaitPHY"
      BY <1>5 DEF RxCheckMessageID, RxRuns
    <2>1. CASE RxDrop
      BY <2>0, <2>1, <1>d
    <2>2. CASE TellTxAndYield("DISCARD", "Store.yielded") /\ UNCHANGED <<poolVars, peVars, rxVars>>
      <3>0. pc' = [pc EXCEPT !["RX"] = "Store.yielded"]
        BY <2>2 DEF RxGoto, TellTxAndYield
      <3>1. pc'["PE"] = pc["PE"] /\ pc'["RX"] # "WaitPHY"
        BY <3>0, <1>0 DEF PcOK, Thread, Prl
      <3>. QED
        BY <2>0, <2>2, <3>1, NothingMoves DEF Owned, BufferInv, PlacesOK
    <2>. QED
      BY <1>5, <2>1, <2>2 DEF RxCheckMessageID
  <1>6. CASE RxStoreMessageID
    <2>1. pc["RX"] # "WaitPHY" /\ pc'["RX"] = "WaitPHY" /\ pc'["PE"] = pc["PE"]
      BY <1>6, <1>g DEF RxStoreMessageID, RxRuns, RxGoto
    <2>2. UNCHANGED <<pool, peMsg, req, sent>> /\ peMail' = Post(peMail, rxMsg)
      BY <1>6 DEF RxStoreMessageID
    <2>3. rxMsg \notin Elements(peMail)
      <3>1. Owned["rx"] \cap Owned["mail"] = {}
        BY <1>p DEF BufferInv, Disjoint
      <3>. QED
        BY <3>1, <2>1 DEF Owned
    <2>4. peMail \in Seq(Buf) /\ Distinct(peMail)
      BY DEF TypeInv, TypeOK, PeOK, BufferInv
    <2>5. Elements(peMail') = Elements(peMail) \cup {rxMsg} /\ Distinct(peMail')
      BY <2>1, <2>2, <2>3, <2>4, <1>r, PostElements
    <2>6. Moves("rx", "mail", {rxMsg})
      BY <2>1, <2>2, <2>5 DEF Moves, Parties, Owned
    <2>7. PlacesOK'
      BY <2>1, <2>2 DEF BufferInv, PlacesOK
    <2>. QED
      BY <2>5, <2>6, <2>7, <1>p, OneMoves
  <1>. QED
    BY <1>1, <1>2, <1>3, <1>4, <1>5, <1>6 DEF RxNext

\* So does every other step, which moves neither of them nor any buffer.
LEMMA OtherBuffers ==
    ASSUME TypeInv, BufferInv, [Next]_vars, ~PeNext, ~RxNext
    PROVE  BufferInv'
  <1>. PcOK
    BY DEF TypeInv, TypeOK, KernelOK
  <1>p. "TX" \in Prl /\ "HR" \in Prl
    BY DEF Prl
  <1>1. ASSUME NEW t \in {"TX", "HR"}, NEW s, UNCHANGED pc \/ pc' = [pc EXCEPT ![t] = s],
               UNCHANGED <<pool, rxMsg, peMsg, peMail, req, sent>>
        PROVE  BufferInv'
    <2>1. pc'["PE"] = pc["PE"] /\ pc'["RX"] = pc["RX"]
      BY <1>1 DEF PcOK, Thread, Prl
    <2>. QED
      BY <1>1, <2>1, StayKeeps DEF BuffersStay
  <1>2. CASE PeTimer
    <2>1. ASSUME NEW s, NEW r, At(s), Goto(r), Leave, s \notin Sending \cup {"EvalCap"},
                 s \notin Stale \/ r \in Stale
          PROVE  BufferInv'
      BY <2>1, PeGoes DEF At, Leave
    <2>2. CASE NoCapabilities \/ NoReply \/ NoPsRdy \/ NoAccept \/ RequestAgain
               \/ ChunkingNotSupported
      BY <2>2, <2>1
      DEF NoCapabilities, NoReply, NoPsRdy, NoAccept, OnTimeout, RequestAgain,
          ChunkingNotSupported, TimedOut, Stale, Sending, TxWaits
    <2>3. CASE PpsTimerFires
      BY <2>3, StayKeeps DEF PpsTimerFires, BuffersStay
    <2>. QED
      BY <1>2, <2>2, <2>3 DEF PeTimer
  <1>3. CASE TxNext
    <2>1. UNCHANGED <<pool, rxMsg, peMsg, peMail, req, sent>>
      <3>1. PHYReset \/ WaitMessage \/ ConstructMessage
               => UNCHANGED <<pool, rxMsg, peMsg, peMail, req, sent>>
        BY DEF PHYReset, WaitMessage, GiveUp, ConstructMessage, TxFrame
      <3>2. AmsGranted \/ SendMessage \/ WaitResponse \/ MatchMessageID \/ Block("TX")
               => UNCHANGED <<pool, rxMsg, peMsg, peMail, req, sent>>
        BY DEF AmsGranted, SendMessage, WaitResponse, GiveUp, MatchMessageID, Block, TxFrame
      <3>. QED
        BY <1>3, <3>1, <3>2 DEF TxNext
    <2>2. UNCHANGED pc \/ \E s : pc' = [pc EXCEPT !["TX"] = s]
      <3>1. PHYReset \/ WaitMessage \/ ConstructMessage
               => \E s : pc' = [pc EXCEPT !["TX"] = s]
        BY DEF PHYReset, WaitMessage, GiveUp, DiscardMessage, ConstructMessage, Report, TxGoto,
               StartI2C
      <3>2. AmsGranted \/ SendMessage \/ WaitResponse \/ MatchMessageID \/ Block("TX")
               => UNCHANGED pc \/ \E s : pc' = [pc EXCEPT !["TX"] = s]
        BY DEF AmsGranted, SendMessage, WaitResponse, GiveUp, DiscardMessage, MatchMessageID,
               Block, Report, TxGoto, StartI2C
      <3>. QED
        BY <1>3, <3>1, <3>2 DEF TxNext
    <2>. QED
      BY <2>1, <2>2, <1>1
  <1>4. CASE HrNext
    <2>1. UNCHANGED <<pool, rxMsg, peMsg, peMail, req, sent>>
      BY <1>4 DEF HrNext, HrResetLayer, HrResetTx, HrIndicate, HrRequest, HrRequested,
                  HrWaitPHY, HrHardResetRequested, HrWaitPE, Block, HrFrame
    <2>2. UNCHANGED pc \/ \E s : pc' = [pc EXCEPT !["HR"] = s]
      BY <1>4 DEF HrNext, HrResetLayer, HrResetTx, HrIndicate, HrRequest, HrRequested,
                  HrWaitPHY, HrHardResetRequested, HrWaitPE, Block, HrGoto, StartI2C
    <2>. QED
      BY <2>1, <2>2, <1>1
  <1>5. CASE IntNNext \/ BusDone
    BY <1>5, <1>1 DEF IntNNext, IntNPoll, IntNTell, BusDone
  <1>6. CASE Chip \/ Outside
    <2>1. UNCHANGED <<pc, pool, rxMsg, peMsg, peMail, req, sent>>
      BY <1>6 DEF Chip, Outside, TransmitSucceeds, TransmitFails, HardResetSignalled,
                  PartnerSends, PartnerRepeats, PartnerHardResets, OverTemp, UserSignals,
                  SoftwareStays
    <2>. QED
      BY <2>1, <1>1
  <1>7. CASE UNCHANGED vars
    BY <1>7, <1>1
  <1>. QED
    BY <1>2, <1>3, <1>4, <1>5, <1>6, <1>7 DEF Next, Stack, Strike

\* At first every buffer is in the pool.
LEMMA InitBuffers == Init => BufferInv
  <1>. SUFFICES ASSUME Init PROVE BufferInv
    OBVIOUS
  <1>1. pc["PE"] = "Startup" /\ pc["RX"] = "WaitPHY" /\ pool = Buf /\ peMail = <<>>
        /\ peMsg = NULL /\ req = NULL /\ sent = NULL
    BY DEF Init
  <1>2. Owned["pool"] = Buf /\ \A i \in Parties \ {"pool"} : Owned[i] = {}
    BY <1>1 DEF Owned, Parties, Elements
  <1>3. Disjoint(Owned)
    BY <1>2 DEF Disjoint
  <1>4. Complete(Owned)
    BY <1>2 DEF Complete, Parties
  <1>5. Distinct(peMail) /\ PlacesOK
    BY <1>1 DEF Distinct, PlacesOK
  <1>. QED
    BY <1>3, <1>4, <1>5 DEF BufferInv

\* Every step keeps the buffers in good hands.
LEMMA NextBuffers == TypeInv /\ BufferInv /\ [Next]_vars => BufferInv'
  BY PeBuffers, RxBuffers, OtherBuffers

\* However the threads interleave, no buffer of pdb_msg_pool has two owners: none is
\* freed twice, and none is in the hands of two threads.
THEOREM SharingCorrect == Spec => []NoSharing
  <1>1. BufferInv => NoSharing
    BY OwnersAre DEF BufferInv, NoSharing, Disjoint, Distinct
  <1>. QED
    BY InitType, NextType, InitBuffers, NextBuffers, <1>1, PTL DEF Spec

\* With a device policy manager that frees the capabilities it is given, no buffer is
\* ever lost to the pool.
THEOREM LeakCorrect == Spec => []NoLeak
  <1>1. BufferInv => NoLeak
    BY OwnersAre DEF BufferInv, NoLeak, Complete
  <1>. QED
    BY InitType, NextType, InitBuffers, NextBuffers, <1>1, PTL DEF Spec

-----------------------------------------------------------------------------
(* The message flags.                                                      *)

\* What a step may do to the flag of a mailbox: leave both alone, lower the flag, or have
\* a message in the mailbox afterwards.
KeepsRx == "MSG_RX" \in ev'["PE"] => peMail' # <<>> \/ (peMail' = peMail /\ "MSG_RX" \in ev["PE"])
KeepsTx == "MSG_TX" \in ev'["TX"] => txMail' # <<>> \/ (txMail' = txMail /\ "MSG_TX" \in ev["TX"])
KeepsFlags == KeepsRx /\ KeepsTx

\* The engine's waits that take MSG_RX.
RxWaits == {"WaitCap", "SelectCap.rsp", "TransitionSink", "Ready", "SendSoftReset.rsp"}

\* They do take it.
LEMMA RxMasks == \A s \in RxWaits : "MSG_RX" \in Mask[s]
  BY EngineMasks DEF RxWaits

\* A mailbox that something is posted to is not empty: when there was no room, it was full.
LEMMA PostSome ==
    ASSUME NEW mail \in Seq(Buf), NEW b \in Buf
    PROVE  Post(mail, b) # <<>>
  <1>1. Cardinality(Buf) \in Nat /\ Cardinality(Buf) # 0
    BY BufAssumption, FS_CardinalityType, FS_EmptySet
  <1>2. CASE mail = <<>>
    BY <1>1, <1>2 DEF Post
  <1>3. CASE mail # <<>>
    BY <1>3 DEF Post
  <1>. QED
    BY <1>2, <1>3

\* Nobody raises a flag.
LEMMA QuietFlags ==
    ASSUME UNCHANGED <<peMail, txMail>>,
           "MSG_RX" \in ev'["PE"] => "MSG_RX" \in ev["PE"],
           "MSG_TX" \in ev'["TX"] => "MSG_TX" \in ev["TX"]
    PROVE  KeepsFlags
  BY DEF KeepsFlags, KeepsRx, KeepsTx

\* The engine wakes and takes MSG_RX, if it fetches a message,
LEMMA WokenFlags ==
    ASSUME TypeInv, NEW s, Woken(s), UNCHANGED txMail, UNCHANGED peMail \/ s \in RxWaits
    PROVE  KeepsFlags
  <1>1. ev'["PE"] = ev["PE"] \ Mask[s] /\ ev'["TX"] = ev["TX"]
    BY DEF Woken, TypeInv, TypeOK, KernelOK, Thread, Prl
  <1>. QED
    BY <1>1, RxMasks DEF KeepsFlags, KeepsRx, KeepsTx

\* or hands a message over.
LEMMA SubmitFlags ==
    ASSUME TypeInv, NEW b \in Buf, Submit(b), UNCHANGED peMail
    PROVE  KeepsFlags
  <1>1. ev'["PE"] = ev["PE"]
    BY DEF Submit, TypeInv, TypeOK, KernelOK, Thread, Prl
  <1>2. txMail' # <<>>
    BY PostSome DEF Submit, TypeInv, TypeOK, PrlOK
  <1>. QED
    BY <1>1, <1>2 DEF KeepsFlags, KeepsRx, KeepsTx

\* Every step of the engine keeps the flags true.
LEMMA PeFlags ==
    ASSUME TypeInv, PeNext
    PROVE  KeepsFlags
  <1>. USE DEF Leave
  <1>u. ASSUME UNCHANGED <<ev, peMail, txMail>> PROVE KeepsFlags
    BY <1>u, QuietFlags
  <1>r. ASSUME NEW s, OnReset(s) PROVE KeepsFlags
    BY <1>r, WokenFlags DEF OnReset
  <1>w. RxWaits = {"WaitCap", "SelectCap.rsp", "TransitionSink", "Ready", "SendSoftReset.rsp"}
    BY DEF RxWaits
  <1>t. ASSUME NEW s, NEW type, NEW wait, Transmit(s, type, wait) PROVE KeepsFlags
    <2>1. PICK b \in pool : Submit(b)
      BY <1>t DEF Transmit
    <2>2. b \in Buf
      BY DEF TypeInv, TypeOK, PoolOK
    <2>. QED
      BY <1>t, <2>1, <2>2, SubmitFlags DEF Transmit
  <1>a. ASSUME NEW s, NEW done, NEW failed, AfterTransmit(s, done, failed) PROVE KeepsFlags
    BY <1>a, WokenFlags DEF AfterTransmit
  <1>h. ASSUME NEW e, SignalHr(e), UNCHANGED <<peMail, txMail>> PROVE KeepsFlags
    <2>1. ev'["PE"] = ev["PE"] /\ ev'["TX"] = ev["TX"]
      BY <1>h DEF SignalHr, TypeInv, TypeOK, KernelOK, Thread, Prl
    <2>. QED
      BY <1>h, <2>1, QuietFlags
  <1>1. CASE Startup \/ Discovery \/ EvalCap \/ NotSupportedReceived \/ SourceUnresponsive
             \/ PeAllocFails
    BY <1>1, <1>u
    DEF Startup, Discovery, EvalCap, NotSupportedReceived, SourceUnresponsive, PeAllocFails
  <1>2. CASE WaitCap
    BY <1>2, <1>w, <1>r, WokenFlags DEF WaitCap
  <1>3. CASE SelectCap
    <2>1. req \in Buf
      BY <1>3 DEF SelectCap, At, TypeInv, TypeOK, PeOK, PointersOK, Requesting
    <2>. QED
      BY <1>3, <2>1, SubmitFlags DEF SelectCap
  <1>4. CASE SelectCapSent \/ HardResetSent \/ ChunkReceived
    BY <1>4, <1>r, WokenFlags DEF SelectCapSent, HardResetSent, ChunkReceived
  <1>5. CASE SelectCapReply
    BY <1>5, <1>w, <1>r, WokenFlags DEF SelectCapReply
  <1>6. CASE TransitionSink
    BY <1>6, <1>w, <1>r, WokenFlags DEF TransitionSink
  <1>7. CASE Ready
    <2>1. CASE ReadyStartAms
      <3>1. /\ ev'["PE"] = ev["PE"] \ Mask["Ready"]
            /\ ev'["TX"] = ev["TX"] \cup {"START_AMS"}
            /\ UNCHANGED <<peMail, txMail>>
        BY <2>1 DEF ReadyStartAms, ReadyStay, SignalTx, TypeInv, TypeOK, KernelOK, Thread, Prl
      <3>. QED
        BY <3>1, QuietFlags
    <2>2. CASE ReadyMessage
      BY <2>2, <1>w, WokenFlags DEF ReadyMessage, ReadyStay
    <2>3. CASE Woken("Ready") /\ Leave
      BY <2>3, WokenFlags
    <2>. QED
      BY <1>7, <2>1, <2>2, <2>3, <1>r DEF Ready
  <1>8. CASE GetSourceCap \/ GiveSinkCap \/ SoftReset \/ SendNotSupported
    BY <1>8, <1>t, <1>a DEF GetSourceCap, GiveSinkCap, SoftReset, SendNotSupported
  <1>9. CASE SendSoftReset
    BY <1>9, <1>w, <1>t, <1>a, <1>r, WokenFlags DEF SendSoftReset
  <1>10. CASE HardReset
    BY <1>10, <1>u, <1>h DEF HardReset
  <1>11. CASE TransitionDefault
    BY <1>11, <1>h DEF TransitionDefault
  <1>. QED
    BY <1>1, <1>2, <1>3, <1>4, <1>5, <1>6, <1>7, <1>8, <1>9, <1>10, <1>11 DEF PeNext

\* The engine's timers and the user raise no message flag.
LEMMA TimerFlags ==
    ASSUME TypeInv, PeTimer
    PROVE  KeepsFlags
  <1>1. CASE PpsTimerFires
    <2>1. ev'["PE"] = ev["PE"] \cup {"PPS_REQUEST"} /\ ev'["TX"] = ev["TX"]
      BY <1>1 DEF PpsTimerFires, TypeInv, TypeOK, KernelOK, Thread, Prl
    <2>. QED
      BY <1>1, <2>1, QuietFlags DEF PpsTimerFires
  <1>2. CASE ~PpsTimerFires
    <2>1. UNCHANGED <<ev, peMail, txMail>>
      BY <1>2 DEF PeTimer, NoCapabilities, NoReply, NoPsRdy, NoAccept, OnTimeout, RequestAgain,
                  ChunkingNotSupported, TimedOut, Leave
    <2>. QED
      BY <2>1, QuietFlags
  <1>. QED
    BY <1>1, <1>2

\* Every step of the TX thread keeps them true: it takes MSG_TX whenever it fetches.
LEMMA TxFlags ==
    ASSUME TypeInv, TxNext
    PROVE  KeepsFlags
  <1>e. ev \in [Thread -> SUBSET Event]
    BY DEF TypeInv, TypeOK, KernelOK
  <1>c. ASSUME NEW E, TxClear(E), UNCHANGED <<peMail, txMail>> PROVE KeepsFlags
    <2>1. ev'["PE"] = ev["PE"] /\ ev'["TX"] = ev["TX"] \ E
      BY <1>c, <1>e DEF TxClear, Thread, Prl
    <2>. QED
      BY <1>c, <2>1, QuietFlags
  <1>g. ASSUME NEW evt, NEW E, GiveUp(evt, E) PROVE KeepsFlags
    BY <1>g, <1>c DEF GiveUp, TxFrame
  <1>r. ASSUME NEW e, NEW E, e # "MSG_RX", Report(e, E), UNCHANGED <<peMail, txMail>>
        PROVE  KeepsFlags
    <2>1. ev'["PE"] = ev["PE"] \cup {e} /\ ev'["TX"] = ev["TX"] \ E
      BY <1>r, <1>e DEF Report, Thread, Prl
    <2>. QED
      BY <1>r, <2>1, QuietFlags
  <1>u. ASSUME UNCHANGED <<ev, peMail, txMail>> PROVE KeepsFlags
    BY <1>u, QuietFlags
  <1>1. CASE PHYReset
    BY <1>1, <1>r, <1>u DEF PHYReset, TxFrame
  <1>2. CASE WaitMessage
    <2>1. CASE GiveUp(Pending("TX"), Mask["WaitMessage"])
      BY <2>1, <1>g
    <2>2. CASE /\ UNCHANGED peMail
               /\ ev' = [ev EXCEPT !["TX"] = @ \ {"MSG_TX"}, !["RX"] = @ \cup {"RESET"}]
      <3>1. ev'["PE"] = ev["PE"] /\ "MSG_TX" \notin ev'["TX"]
        BY <2>2, <1>e DEF Thread, Prl
      <3>. QED
        BY <2>2, <3>1 DEF KeepsFlags, KeepsRx, KeepsTx
    <2>3. CASE UNCHANGED peMail /\ TxClear({"MSG_TX"})
      <3>1. ev'["PE"] = ev["PE"] /\ "MSG_TX" \notin ev'["TX"]
        BY <2>3, <1>e DEF TxClear, Thread, Prl
      <3>. QED
        BY <2>3, <3>1 DEF KeepsFlags, KeepsRx, KeepsTx
    <2>. QED
      BY <1>2, <2>1, <2>2, <2>3 DEF WaitMessage, TxFrame
  <1>3. CASE ConstructMessage
    BY <1>3, <1>g, <1>c, <1>u DEF ConstructMessage
  <1>4. CASE AmsGranted \/ SendMessage \/ Block("TX")
    BY <1>4, <1>u DEF AmsGranted, SendMessage, Block, TxFrame
  <1>5. CASE WaitResponse
    BY <1>5, <1>g, <1>c, <1>r DEF WaitResponse, TxFrame
  <1>6. CASE MatchMessageID
    BY <1>6, <1>r DEF MatchMessageID, TxFrame
  <1>. QED
    BY <1>1, <1>2, <1>3, <1>4, <1>5, <1>6 DEF TxNext

\* So does every step of the RX thread, which raises MSG_RX over a message it has posted.
LEMMA RxFlags ==
    ASSUME TypeInv, RxNext
    PROVE  KeepsFlags
  <1>. USE DEF RxFrame
  <1>e. ev \in [Thread -> SUBSET Event]
    BY DEF TypeInv, TypeOK, KernelOK
  <1>u. ASSUME UNCHANGED <<ev, peMail, txMail>> PROVE KeepsFlags
    BY <1>u, QuietFlags
  <1>x. ASSUME NEW E, ev' = [ev EXCEPT !["RX"] = E], UNCHANGED <<peMail, txMail>> PROVE KeepsFlags
    <2>1. ev'["PE"] = ev["PE"] /\ ev'["TX"] = ev["TX"]
      BY <1>x, <1>e DEF Thread, Prl
    <2>. QED
      BY <1>x, <2>1, QuietFlags
  <1>t. ASSUME NEW e, NEW s, e # "MSG_TX", TellTxAndYield(e, s), UNCHANGED <<peMail, txMail>>
        PROVE  KeepsFlags
    <2>1. ev'["PE"] = ev["PE"] /\ ev'["TX"] = ev["TX"] \cup {e}
      BY <1>t, <1>e DEF TellTxAndYield, Thread, Prl
    <2>. QED
      BY <1>t, <2>1, QuietFlags
  <1>d. ASSUME RxDrop PROVE KeepsFlags
    BY <1>d, <1>x DEF RxDrop
  <1>1. CASE RxWaitPHY
    BY <1>1, <1>x DEF RxWaitPHY
  <1>2. CASE RxAllocFails \/ Block("RX")
    BY <1>2, <1>u DEF RxAllocFails, Block
  <1>3. CASE RxRead
    BY <1>3, <1>t, <1>u DEF RxRead
  <1>4. CASE RxReset
    BY <1>4, <1>d, <1>u DEF RxReset
  <1>5. CASE RxCheckMessageID
    BY <1>5, <1>d, <1>t DEF RxCheckMessageID
  <1>6. CASE RxStoreMessageID
    <2>1. rxMsg \in Buf
      BY <1>6 DEF RxStoreMessageID, RxRuns, TypeInv, TypeOK, PrlOK, PointersOK
    <2>2. peMail' # <<>>
      BY <1>6, <2>1, PostSome DEF RxStoreMessageID, TypeInv, TypeOK, PeOK
    <2>3. ev'["TX"] = ev["TX"] /\ UNCHANGED txMail
      BY <1>6, <1>e DEF RxStoreMessageID, Thread, Prl
    <2>. QED
      BY <2>2, <2>3 DEF KeepsFlags, KeepsRx, KeepsTx
  <1>. QED
    BY <1>1, <1>2, <1>3, <1>4, <1>5, <1>6 DEF RxNext

\* So does every step of the HR thread,
LEMMA HrFlags ==
    ASSUME TypeInv, HrNext
    PROVE  KeepsFlags
  <1>e. ev \in [Thread -> SUBSET Event]
    BY DEF TypeInv, TypeOK, KernelOK
  <1>1. UNCHANGED <<peMail, txMail>>
    BY DEF HrNext, HrResetLayer, HrResetTx, HrIndicate, HrRequest, HrRequested,
           HrWaitPHY, HrHardResetRequested, HrWaitPE, Block, HrFrame
  <1>2. "MSG_RX" \in ev'["PE"] => "MSG_RX" \in ev["PE"]
    BY <1>e DEF HrNext, HrResetLayer, HrResetTx, HrIndicate, HrRequest, HrRequested,
           HrWaitPHY, HrHardResetRequested, HrWaitPE, Block, Thread, Prl
  <1>3. "MSG_TX" \in ev'["TX"] => "MSG_TX" \in ev["TX"]
    BY <1>e DEF HrNext, HrResetLayer, HrResetTx, HrIndicate, HrRequest, HrRequested,
           HrWaitPHY, HrHardResetRequested, HrWaitPE, Block, Thread, Prl
  <1>. QED
    BY <1>1, <1>2, <1>3, QuietFlags

\* and of the poller, the bus, the chip, the partner and the user.
LEMMA WorldFlags ==
    ASSUME TypeInv, IntNNext \/ BusDone \/ Chip \/ Outside \/ UNCHANGED vars
    PROVE  KeepsFlags
  <1>e. ev \in [Thread -> SUBSET Event]
    BY DEF TypeInv, TypeOK, KernelOK
  <1>u. ASSUME UNCHANGED <<ev, peMail, txMail>> PROVE KeepsFlags
    BY <1>u, QuietFlags
  <1>1. CASE IntNPoll \/ BusDone \/ Chip \/ UNCHANGED vars
    BY <1>1, <1>u DEF IntNPoll, BusDone, Chip, TransmitSucceeds, TransmitFails,
                      HardResetSignalled, SoftwareStays
  <1>2. ASSUME NEW t \in Thread, IntNTell(t) PROVE KeepsFlags
    <2>1. UNCHANGED <<peMail, txMail>> /\ ev' = [ev EXCEPT ![t] = @ \cup (status \cap For[t])]
      BY <1>2 DEF IntNTell
    <2>2. "MSG_RX" \notin status /\ "MSG_TX" \notin status
      BY DEF TypeInv, TypeOK, WorldOK, Interrupt
    <2>. QED
      BY <2>1, <2>2, <1>e, QuietFlags DEF Thread, Prl
  <1>3. CASE Outside
    <2>1. CASE UNCHANGED ev
      <3>1. UNCHANGED <<peMail, txMail>>
        BY <1>3 DEF Outside, PartnerSends, PartnerRepeats, PartnerHardResets, OverTemp,
                    UserSignals, SoftwareStays
      <3>. QED
        BY <2>1, <3>1, <1>u
    <2>2. CASE UserSignals
      <3>1. PICK x \in userLeft : ev' = [ev EXCEPT !["PE"] = @ \cup {x}]
        BY <2>2 DEF UserSignals
      <3>2. x # "MSG_RX"
        BY BoundAssumption DEF TypeInv, TypeOK, WorldOK
      <3>3. ev'["PE"] = ev["PE"] \cup {x} /\ ev'["TX"] = ev["TX"]
        BY <3>1, <1>e DEF Thread, Prl
      <3>4. UNCHANGED <<peMail, txMail>>
        BY <2>2 DEF UserSignals, SoftwareStays
      <3>. QED
        BY <3>2, <3>3, <3>4, QuietFlags
    <2>. QED
      BY <1>3, <2>1, <2>2
      DEF Outside, PartnerSends, PartnerRepeats, PartnerHardResets, OverTemp
  <1>. QED
    BY <1>1, <1>2, <1>3 DEF IntNNext

\* A message flag is never raised over an empty mailbox: whoever finds one pending finds a
\* message as well, whatever resets and give-ups came in between.
THEOREM FlagsCorrect == Spec => []FlagsHaveMessages
  <1>1. Init => FlagsHaveMessages
    BY DEF Init, FlagsHaveMessages, Thread, Prl
  <1>2. TypeInv /\ [Next]_vars => KeepsFlags
    BY PeFlags, TimerFlags, TxFlags, RxFlags, HrFlags, WorldFlags DEF Next, Stack, Strike
  <1>3. FlagsHaveMessages /\ KeepsFlags => FlagsHaveMessages'
    BY DEF FlagsHaveMessages, KeepsFlags, KeepsRx, KeepsTx
  <1>. QED
    BY InitType, NextType, <1>1, <1>2, <1>3, PTL DEF Spec

-----------------------------------------------------------------------------
(* The output and the explicit contract.                                   *)

\* The inductive invariant: PE_SNK_Startup, which withdraws the contract, is only ever
\* entered after the transition to default has taken the power away.
PowerInv == /\ PowerUnderContract
            /\ pc["PE"] = "Startup" => supply # "requested"

\* The engine leaves supply and contract alone and does not start over.
LEMMA KeepsPower ==
    ASSUME TypeInv, PowerInv, NEW s, s # "Startup", Goto(s), UNCHANGED <<supply, contract>>
    PROVE  PowerInv'
  BY PeAt DEF PowerInv, PowerUnderContract

\* No message takes the engine straight back to the start.
LEMMA AfterNotStartup ==
    /\ \A type : AfterReply(type) # "Startup"
    /\ \A type : AfterReady(type) # "Startup"
    /\ \A type : AfterSoftReset(type) # "Startup"
  <1>1. ASSUME NEW type PROVE AfterReply(type) # "Startup"
    BY Zenon DEF AfterReply
  <1>2. ASSUME NEW type PROVE AfterReady(type) # "Startup"
    BY Zenon DEF AfterReady
  <1>3. ASSUME NEW type PROVE AfterSoftReset(type) # "Startup"
    BY Zenon DEF AfterSoftReset
  <1>. QED
    BY <1>1, <1>2, <1>3

\* Every step of the engine keeps the power invariant.
LEMMA PePower ==
    ASSUME TypeInv, PowerInv, PeNext
    PROVE  PowerInv'
  <1>. USE DEF Leave
  <1>r. ASSUME NEW s, OnReset(s) PROVE PowerInv'
    BY <1>r, KeepsPower DEF OnReset
  <1>t. ASSUME NEW s, NEW type, NEW wait, wait # "Startup", Transmit(s, type, wait)
        PROVE  PowerInv'
    BY <1>t, KeepsPower DEF Transmit
  <1>a. ASSUME NEW s, NEW done, NEW failed, done # "Startup", failed # "Startup",
               AfterTransmit(s, done, failed)
        PROVE  PowerInv'
    BY <1>a, KeepsPower DEF AfterTransmit
  <1>1. CASE Startup
    <2>1. pc["PE"] = "Startup" /\ pc'["PE"] = "Discovery" /\ supply' = supply
      BY <1>1, PeAt DEF Startup, At
    <2>. QED
      BY <2>1 DEF PowerInv, PowerUnderContract
  <1>2. CASE Discovery \/ EvalCap \/ SelectCap \/ NotSupportedReceived \/ HardReset
    BY <1>2, KeepsPower DEF Discovery, EvalCap, SelectCap, NotSupportedReceived, HardReset
  <1>3. CASE WaitCap
    BY <1>3, <1>r, KeepsPower DEF WaitCap
  <1>4. CASE SelectCapSent
    BY <1>4, <1>r, KeepsPower DEF SelectCapSent
  <1>5. CASE SelectCapReply
    <2>1. CASE OnReset("SelectCap.rsp")
      BY <2>1, <1>r
    <2>2. CASE /\ Goto(AfterReply(Received)) /\ UNCHANGED contract
               /\ supply' \in {supply, "standby"}
      BY <2>2, AfterNotStartup, PeAt DEF PowerInv, PowerUnderContract
    <2>. QED
      BY <1>5, <2>1, <2>2 DEF SelectCapReply
  <1>6. CASE TransitionSink
    <2>1. CASE OnReset("TransitionSink")
      BY <2>1, <1>r
    <2>2. CASE /\ contract' = (contract \/ Received = "PS_RDY")
               /\ supply' = IF Received = "none" \/ (Received = "PS_RDY" /\ minPower)
                            THEN supply
                            ELSE IF Received = "PS_RDY" THEN "requested" ELSE "default"
               /\ Goto(IF Received = "PS_RDY" THEN "Ready" ELSE "HardReset")
      <3>1. CASE Received = "PS_RDY"
        <4>1. contract' = TRUE
          BY <2>2, <3>1, Zenon
        <4>2. pc'["PE"] = "Ready"
          BY <2>2, <3>1, PeAt
        <4>. QED
          BY <4>1, <4>2 DEF PowerInv, PowerUnderContract
      <3>2. CASE Received # "PS_RDY"
        <4>1. contract' <=> contract
          BY <2>2, <3>2
        <4>2. pc'["PE"] = "HardReset" /\ supply' \in {supply, "default"}
          BY <2>2, <3>2, PeAt
        <4>. QED
          BY <4>1, <4>2 DEF PowerInv, PowerUnderContract
      <3>. QED
        BY <3>1, <3>2
    <2>. QED
      BY <1>6, <2>1, <2>2 DEF TransitionSink
  <1>7. CASE Ready
    <2>1. CASE ReadyMessage
      <3>1. Goto(AfterReady(Received)) /\ supply' \in {supply, "min"} /\ UNCHANGED contract
        BY <2>1 DEF ReadyMessage
      <3>. QED
        BY <3>1, AfterNotStartup, PeAt DEF PowerInv, PowerUnderContract
    <2>2. CASE ReadyStartAms
      BY <2>2, KeepsPower DEF ReadyStartAms
    <2>. QED
      BY <1>7, <2>1, <2>2, <1>r, KeepsPower DEF Ready
  <1>8. CASE \/ GetSourceCap \/ GiveSinkCap \/ SoftReset \/ SendNotSupported \/ ChunkReceived
    BY <1>8, <1>t, <1>a, <1>r
    DEF GetSourceCap, GiveSinkCap, SoftReset, SendNotSupported, ChunkReceived
  <1>9. CASE SendSoftReset
    BY <1>9, <1>t, <1>a, <1>r, KeepsPower, AfterNotStartup DEF SendSoftReset
  <1>10. CASE HardResetSent
    BY <1>10, KeepsPower DEF HardResetSent
  <1>11. CASE TransitionDefault
    <2>1. supply' = "default"
      BY <1>11 DEF TransitionDefault
    <2>. QED
      BY <2>1 DEF PowerInv, PowerUnderContract
  <1>12. CASE SourceUnresponsive
    BY <1>12 DEF SourceUnresponsive, PowerInv, PowerUnderContract
  <1>13. CASE PeAllocFails
    BY <1>13 DEF PeAllocFails, PowerInv, PowerUnderContract
  <1>. QED
    BY <1>1, <1>2, <1>3, <1>4, <1>5, <1>6, <1>7, <1>8, <1>9, <1>10, <1>11, <1>12, <1>13
    DEF PeNext

\* Nobody else moves the engine or switches the output.
LEMMA OthersPower ==
    ASSUME TypeInv, PowerInv, [Next]_vars, ~PeNext
    PROVE  PowerInv'
  <1>. PcOK
    BY DEF TypeInv, TypeOK, KernelOK
  <1>1. ASSUME NEW t \in Prl, NEW s, UNCHANGED pc \/ pc' = [pc EXCEPT ![t] = s],
               UNCHANGED <<supply, contract>>
        PROVE  PowerInv'
    <2>1. pc'["PE"] = pc["PE"]
      BY <1>1 DEF PcOK, Thread, Prl
    <2>. QED
      BY <1>1, <2>1 DEF PowerInv, PowerUnderContract
  <1>p. "TX" \in Prl /\ "RX" \in Prl /\ "HR" \in Prl
    BY DEF Prl
  <1>2. CASE PeTimer
    BY <1>2, <1>1, <1>p, KeepsPower
    DEF PeTimer, NoCapabilities, NoReply, NoPsRdy, NoAccept, OnTimeout, RequestAgain,
        ChunkingNotSupported, PpsTimerFires, Leave
  <1>3. CASE TxNext
    <2>1. PHYReset \/ WaitMessage \/ ConstructMessage => UNCHANGED <<supply, contract>>
      BY DEF PHYReset, WaitMessage, GiveUp, ConstructMessage, TxFrame
    <2>2. AmsGranted \/ SendMessage \/ WaitResponse \/ MatchMessageID \/ Block("TX")
             => UNCHANGED <<supply, contract>>
      BY DEF AmsGranted, SendMessage, WaitResponse, GiveUp, MatchMessageID, Block, TxFrame
    <2>3. PHYReset \/ WaitMessage \/ ConstructMessage
             => \E s : pc' = [pc EXCEPT !["TX"] = s]
      BY DEF PHYReset, WaitMessage, GiveUp, DiscardMessage, ConstructMessage, Report, TxGoto,
             StartI2C
    <2>4. AmsGranted \/ SendMessage \/ WaitResponse \/ MatchMessageID \/ Block("TX")
             => UNCHANGED pc \/ \E s : pc' = [pc EXCEPT !["TX"] = s]
      BY DEF AmsGranted, SendMessage, WaitResponse, GiveUp, DiscardMessage, MatchMessageID,
             Block, Report, TxGoto, StartI2C
    <2>. QED
      BY <1>3, <2>1, <2>2, <2>3, <2>4, <1>1, <1>p DEF TxNext
  <1>4. CASE RxNext
    <2>1. UNCHANGED <<supply, contract>>
      BY <1>4 DEF RxNext, RxWaitPHY, RxAllocFails, RxRead, RxReset, RxDrop, RxCheckMessageID,
                  RxStoreMessageID, Block
    <2>2. UNCHANGED pc \/ \E s : pc' = [pc EXCEPT !["RX"] = s]
      BY <1>4 DEF RxNext, RxWaitPHY, RxAllocFails, RxRead, RxReset, RxDrop, RxCheckMessageID,
                  RxStoreMessageID, Block, RxGoto, TellTxAndYield, StartI2C
    <2>. QED
      BY <2>1, <2>2, <1>1, <1>p
  <1>5. CASE HrNext
    <2>1. UNCHANGED <<supply, contract>>
      BY <1>5 DEF HrNext, HrResetLayer, HrResetTx, HrIndicate, HrRequest, HrRequested,
                  HrWaitPHY, HrHardResetRequested, HrWaitPE, Block, HrFrame
    <2>2. UNCHANGED pc \/ \E s : pc' = [pc EXCEPT !["HR"] = s]
      BY <1>5 DEF HrNext, HrResetLayer, HrResetTx, HrIndicate, HrRequest, HrRequested,
                  HrWaitPHY, HrHardResetRequested, HrWaitPE, Block, HrGoto, StartI2C
    <2>. QED
      BY <2>1, <2>2, <1>1, <1>p
  <1>6. CASE IntNNext \/ BusDone
    BY <1>6, <1>1, <1>p DEF IntNNext, IntNPoll, IntNTell, BusDone
  <1>7. CASE Chip \/ Outside
    <2>1. UNCHANGED <<pc, supply, contract>>
      BY <1>7 DEF Chip, Outside, TransmitSucceeds, TransmitFails, HardResetSignalled,
                  PartnerSends, PartnerRepeats, PartnerHardResets, OverTemp, UserSignals,
                  SoftwareStays
    <2>. QED
      BY <2>1, <1>1, <1>p
  <1>8. CASE UNCHANGED vars
    BY <1>8, <1>1, <1>p
  <1>. QED
    BY <1>2, <1>3, <1>4, <1>5, <1>6, <1>7, <1>8 DEF Next, Stack, Strike

\* The output carries the requested power only under an explicit contract: every path
\* that gives the contract up has taken the power away first.
THEOREM PowerCorrect == Spec => []PowerUnderContract
  <1>1. Init => PowerInv
    BY DEF Init, PowerInv, PowerUnderContract
  <1>2. TypeInv /\ PowerInv /\ [Next]_vars => PowerInv'
    BY PePower, OthersPower
  <1>3. PowerInv => PowerUnderContract
    BY DEF PowerInv
  <1>. QED
    BY InitType, NextType, <1>1, <1>2, <1>3, PTL DEF Spec

-----------------------------------------------------------------------------
(* The PPS Request that has to be repeated.                                *)

\* Where the engine may be between the Request's transmission and the next time it gives
\* the contract up or has a new Request to send.
PpsPlaces == {"SelectCap.rsp", "TransitionSink", "Ready", "GetSourceCap", "GetSourceCap.tx",
              "GiveSinkCap", "GiveSinkCap.tx", "SendNotSupported", "SendNotSupported.tx",
              "ChunkReceived", "NotSupportedReceived"}

UserFlags == {"GET_SOURCE_CAP", "NEW_POWER"}

\* The inductive invariant: PpsKept in all of these places, contract or not, and no flag of
\* the user before he has sent one.
PpsInv ==
    /\ pc["PE"] \in PpsPlaces /\ reqPps /\ rev = "3.0" /\ userLeft = UserEvents
          => ppsTimer \/ "PPS_REQUEST" \in ev["PE"]
    /\ ev["PE"] \cap UserFlags # {} => userLeft # UserEvents

\* A step that has nothing to do with it.
StillPps ==
    /\ UNCHANGED <<ppsTimer, reqPps, rev, userLeft>>
    /\ "PPS_REQUEST" \in ev["PE"] => "PPS_REQUEST" \in ev'["PE"]
    /\ ev'["PE"] \cap UserFlags \subseteq ev["PE"]
    /\ pc'["PE"] \in PpsPlaces => pc["PE"] \in PpsPlaces

\* Such a step keeps the invariant.
LEMMA StillKeepsPps == PpsInv /\ StillPps => PpsInv'
  BY DEF PpsInv, StillPps

\* Only PE_SNK_Ready waits for PPS_REQUEST, so nobody else clears it.
LEMMA PpsMasks == \A s \in PeWaits \ {"Ready"} : "PPS_REQUEST" \notin Mask[s]
  BY EngineMasks DEF PeWaits, TxOutcome

\* Waking anywhere else clears neither that flag nor raises one of the user's.
LEMMA WokenPps ==
    ASSUME TypeInv, NEW s \in PeWaits \ {"Ready"}, Woken(s)
    PROVE  /\ "PPS_REQUEST" \in ev["PE"] => "PPS_REQUEST" \in ev'["PE"]
           /\ ev'["PE"] \subseteq ev["PE"] /\ pc["PE"] = s
  <1>1. ev'["PE"] = ev["PE"] \ Mask[s] /\ pc["PE"] = s
    BY DEF Woken, At, TypeInv, TypeOK, KernelOK, Thread, Prl
  <1>. QED
    BY <1>1, PpsMasks

\* What the engine's waits other than that in PE_SNK_Ready do to it, and a reset, which
\* takes the engine out of these places.
LEMMA WokenStillPps ==
    ASSUME TypeInv, NEW s \in PeWaits \ {"Ready"}, Woken(s), NEW r, Goto(r),
           r \in PpsPlaces => s \in PpsPlaces, UNCHANGED <<ppsTimer, reqPps, rev, userLeft>>
    PROVE  StillPps
  BY WokenPps, PeAt DEF StillPps

LEMMA LeftPps ==
    ASSUME TypeInv, PpsInv, NEW r, Goto(r), r \notin PpsPlaces,
           ev'["PE"] \cap UserFlags \subseteq ev["PE"], UNCHANGED userLeft
    PROVE  PpsInv'
  BY PeAt DEF PpsInv

\* No answer to a Soft_Reset takes the engine to one of these places.
LEMMA AfterPps == \A type : AfterSoftReset(type) \notin PpsPlaces
  BY DEF AfterSoftReset, PpsPlaces

\* Every step of the engine keeps the invariant.
LEMMA PePps ==
    ASSUME TypeInv, PpsInv, PeNext
    PROVE  PpsInv'
  <1>. USE DEF Leave
  <1>e. ev \in [Thread -> SUBSET Event] /\ "PE" \in Thread /\ "TX" \in Thread /\ "HR" \in Thread
    BY DEF TypeInv, TypeOK, KernelOK, Thread, Prl
  <1>l. ASSUME NEW r, Goto(r), r \notin PpsPlaces, ev'["PE"] \subseteq ev["PE"],
               UNCHANGED userLeft
        PROVE  PpsInv'
    BY <1>l, LeftPps
  <1>w. ASSUME NEW s \in PeWaits \ {"Ready"}, Woken(s), NEW r, Goto(r),
               r \in PpsPlaces => s \in PpsPlaces, UNCHANGED <<ppsTimer, reqPps, rev, userLeft>>
        PROVE  PpsInv'
    BY <1>w, WokenStillPps, StillKeepsPps
  <1>k. ASSUME NEW s, Woken(s) PROVE ev'["PE"] \subseteq ev["PE"]
    BY <1>k, <1>e DEF Woken
  <1>r. ASSUME NEW s, OnReset(s) PROVE PpsInv'
    BY <1>r, <1>k, <1>l DEF OnReset, PpsPlaces
  <1>s. ASSUME NEW b, Submit(b) PROVE ev'["PE"] = ev["PE"]
    BY <1>s, <1>e DEF Submit
  <1>t. ASSUME NEW s, NEW type, NEW wait, wait \in PpsPlaces => s \in PpsPlaces,
               Transmit(s, type, wait)
        PROVE  PpsInv'
    <2>1. /\ ev'["PE"] = ev["PE"] /\ pc["PE"] = s /\ pc'["PE"] = wait
          /\ UNCHANGED <<ppsTimer, reqPps, rev, userLeft>>
      BY <1>t, <1>s, PeAt DEF Transmit, At
    <2>. QED
      BY <1>t, <2>1, StillKeepsPps DEF StillPps
  <1>a. ASSUME NEW s \in PeWaits \ {"Ready"}, NEW done, NEW failed,
               done \in PpsPlaces => s \in PpsPlaces, failed \in PpsPlaces => s \in PpsPlaces,
               AfterTransmit(s, done, failed)
        PROVE  PpsInv'
    <2>1. PICK r \in {"TransitionDefault", done, failed} : Goto(r)
      BY <1>a DEF AfterTransmit
    <2>2. r \in PpsPlaces => s \in PpsPlaces
      BY <1>a DEF PpsPlaces
    <2>3. Woken(s) /\ UNCHANGED <<ppsTimer, reqPps, rev, userLeft>>
      BY <1>a DEF AfterTransmit
    <2>. QED
      BY <2>1, <2>2, <2>3, <1>w
  <1>h. ASSUME NEW e, SignalHr(e) PROVE ev'["PE"] = ev["PE"]
    BY <1>h, <1>e DEF SignalHr
  <1>p. PeWaits \ {"Ready"} = {"SelectCap.tx", "GetSourceCap.tx", "GiveSinkCap.tx",
            "SoftReset.tx", "SendSoftReset.tx", "SendNotSupported.tx", "WaitCap",
            "SelectCap.rsp", "TransitionSink", "HardReset.sent", "SendSoftReset.rsp",
            "ChunkReceived"}
    BY DEF PeWaits, TxWaits
  <1>1. CASE Startup \/ Discovery \/ EvalCap
    BY <1>1, <1>l DEF Startup, Discovery, EvalCap, PpsPlaces
  <1>2. CASE WaitCap
    BY <1>2, <1>k, <1>l, <1>r DEF WaitCap, PpsPlaces
  <1>3. CASE SelectCap
    BY <1>3, <1>s, <1>l DEF SelectCap, PpsPlaces
  <1>4. CASE SelectCapSent
    <2>1. CASE Woken("SelectCap.tx") /\ Goto("HardReset") /\ Leave
      BY <2>1, <1>k, <1>l DEF PpsPlaces
    <2>2. CASE /\ Woken("SelectCap.tx") /\ Goto("SelectCap.rsp") /\ ppsTimer' = PpsPeriodic
               /\ UNCHANGED <<reqPps, rev, userLeft>>
      <3>1. reqPps' /\ rev' = "3.0" => ppsTimer'
        BY <2>2 DEF PpsPeriodic
      <3>. QED
        BY <2>2, <3>1, <1>k DEF PpsInv
    <2>. QED
      BY <1>4, <2>1, <2>2, <1>r DEF SelectCapSent
  <1>5. CASE SelectCapReply
    <2>1. CASE /\ Woken("SelectCap.rsp") /\ Goto(AfterReply(Received))
               /\ UNCHANGED <<ppsTimer, reqPps, rev, userLeft>>
      BY <2>1, <1>p, <1>w DEF PpsPlaces
    <2>. QED
      BY <1>5, <2>1, <1>r DEF SelectCapReply
  <1>6. CASE TransitionSink
    <2>1. CASE /\ Woken("TransitionSink")
               /\ Goto(IF Received = "PS_RDY" THEN "Ready" ELSE "HardReset")
               /\ UNCHANGED <<ppsTimer, reqPps, rev, userLeft>>
      BY <2>1, <1>p, <1>w DEF PpsPlaces
    <2>. QED
      BY <1>6, <2>1, <1>r DEF TransitionSink
  <1>7. CASE Ready
    <2>1. CASE ReadyStartAms
      <3>1. ev'["PE"] \subseteq ev["PE"] /\ UNCHANGED userLeft
        BY <2>1, <1>e DEF ReadyStartAms, ReadyStay, SignalTx
      <3>2. CASE Got("GET_SOURCE_CAP")
        <4>1. userLeft # UserEvents
          BY <3>2 DEF Got, Pending, PpsInv, UserFlags
        <4>. QED
          BY <3>1, <4>1 DEF PpsInv
      <3>3. CASE ~Got("GET_SOURCE_CAP")
        <4>1. Goto("EvalCap") \/ Goto("SelectCap")
          BY <2>1, <3>3 DEF ReadyStartAms
        <4>. QED
          BY <3>1, <4>1, <1>l DEF PpsPlaces
      <3>. QED
        BY <3>2, <3>3
    <2>2. CASE ReadyMessage
      <3>1. /\ pc["PE"] = "Ready" /\ Pending("PE") = {"MSG_RX"}
            /\ ev'["PE"] = ev["PE"] \ Mask["Ready"]
            /\ UNCHANGED <<ppsTimer, reqPps, rev, userLeft>>
        BY <2>2, <1>e DEF ReadyMessage, ReadyStay, Woken, At
      <3>2. "PPS_REQUEST" \notin ev["PE"]
        BY <3>1, EngineMasks DEF Pending
      <3>. QED
        BY <3>1, <3>2, StillKeepsPps DEF StillPps, PpsPlaces
    <2>3. CASE Woken("Ready") /\ Goto("HardReset") /\ Leave
      BY <2>3, <1>k, <1>l DEF PpsPlaces
    <2>. QED
      BY <1>7, <2>1, <2>2, <2>3, <1>r DEF Ready
  <1>8. CASE GetSourceCap \/ GiveSinkCap \/ SoftReset \/ SendNotSupported \/ ChunkReceived
    BY <1>8, <1>t, <1>a, <1>r, <1>p
    DEF GetSourceCap, GiveSinkCap, SoftReset, SendNotSupported, ChunkReceived, PpsPlaces
  <1>9. CASE SendSoftReset
    <2>1. CASE /\ Woken("SendSoftReset.rsp") /\ Goto(AfterSoftReset(Received))
               /\ UNCHANGED userLeft
      BY <2>1, <1>k, <1>l, AfterPps
    <2>. QED
      BY <1>9, <2>1, <1>t, <1>a, <1>r, <1>p DEF SendSoftReset, PpsPlaces
  <1>10. CASE NotSupportedReceived
    <2>1. /\ pc["PE"] = "NotSupportedReceived" /\ ev' = ev
          /\ UNCHANGED <<ppsTimer, reqPps, rev, userLeft>>
      BY <1>10 DEF NotSupportedReceived, At
    <2>. QED
      BY <2>1, StillKeepsPps DEF StillPps, PpsPlaces
  <1>11. CASE HardReset
    BY <1>11, <1>h, <1>l DEF HardReset, PpsPlaces
  <1>12. CASE HardResetSent
    BY <1>12, <1>k, <1>l DEF HardResetSent, PpsPlaces
  <1>13. CASE TransitionDefault
    BY <1>13, <1>h, <1>l DEF TransitionDefault, PpsPlaces
  <1>14. CASE SourceUnresponsive \/ PeAllocFails
    BY <1>14 DEF SourceUnresponsive, PeAllocFails, PpsInv
  <1>. QED
    BY <1>1, <1>2, <1>3, <1>4, <1>5, <1>6, <1>7, <1>8, <1>9, <1>10, <1>11, <1>12, <1>13, <1>14
    DEF PeNext

\* The timer that fires raises the flag; the other timers take the engine elsewhere.
LEMMA TimerPps ==
    ASSUME TypeInv, PpsInv, PeTimer
    PROVE  PpsInv'
  <1>1. CASE PpsTimerFires
    <2>1. /\ ev'["PE"] = ev["PE"] \cup {"PPS_REQUEST"} /\ UNCHANGED <<reqPps, rev, userLeft, pc>>
      BY <1>1 DEF PpsTimerFires, TypeInv, TypeOK, KernelOK, Thread, Prl
    <2>. QED
      BY <2>1 DEF PpsInv, UserFlags
  <1>2. ASSUME NEW s, NEW r, TimedOut(s), Goto(r), r \in PpsPlaces => s \in PpsPlaces, Leave
        PROVE  PpsInv'
    BY <1>2, PeAt, StillKeepsPps DEF TimedOut, At, Leave, StillPps
  <1>3. CASE NoCapabilities \/ NoReply \/ NoPsRdy \/ NoAccept
    BY <1>3, <1>2 DEF NoCapabilities, NoReply, NoPsRdy, NoAccept, OnTimeout, PpsPlaces
  <1>4. CASE RequestAgain \/ ChunkingNotSupported
    BY <1>4, <1>2 DEF RequestAgain, ChunkingNotSupported, PpsPlaces
  <1>. QED
    BY <1>1, <1>3, <1>4 DEF PeTimer

\* The other threads, the bus, the chip, the partner and the user leave the engine where it
\* is; only the user raises his flags, and uses one up when he does.
LEMMA OthersPps ==
    ASSUME TypeInv, PpsInv, [Next]_vars, ~PeNext
    PROVE  PpsInv'
  <1>e. /\ ev \in [Thread -> SUBSET Event] /\ pc \in [Thread -> PePc \cup TxPc \cup RxPc \cup HrPc]
        /\ Prl = {"TX", "RX", "HR"} /\ Thread = {"TX", "RX", "HR", "PE"}
    BY DEF TypeInv, TypeOK, KernelOK, PcOK, Thread, Prl
  <1>1. ASSUME UNCHANGED <<ppsTimer, reqPps, rev, userLeft>>,
               UNCHANGED pc \/ \E t \in Prl : \E s : pc' = [pc EXCEPT ![t] = s],
               ev["PE"] \subseteq ev'["PE"], ev'["PE"] \cap UserFlags \subseteq ev["PE"]
        PROVE  PpsInv'
    <2>1. pc'["PE"] = pc["PE"]
      BY <1>1, <1>e
    <2>. QED
      BY <1>1, <2>1, StillKeepsPps DEF StillPps
  <1>2. CASE TxNext
    <2>1. UNCHANGED <<ppsTimer, reqPps, rev, userLeft>>
      BY <1>2 DEF TxNext, PHYReset, WaitMessage, GiveUp, ConstructMessage, AmsGranted, SendMessage,
                  WaitResponse, MatchMessageID, Block, TxFrame
    <2>2. UNCHANGED pc \/ \E s : pc' = [pc EXCEPT !["TX"] = s]
      BY <1>2 DEF TxNext, PHYReset, WaitMessage, GiveUp, DiscardMessage, ConstructMessage,
                  AmsGranted, SendMessage, WaitResponse, MatchMessageID, Block, Report, TxGoto,
                  StartI2C
    <2>3. ev["PE"] \subseteq ev'["PE"] /\ ev'["PE"] \cap UserFlags \subseteq ev["PE"]
      BY <1>2, <1>e
      DEF TxNext, PHYReset, WaitMessage, GiveUp, DiscardMessage, ConstructMessage, AmsGranted,
          SendMessage, WaitResponse, MatchMessageID, Block, Report, TxClear, UserFlags
    <2>. QED
      BY <2>1, <2>2, <2>3, <1>1, <1>e
  <1>3. CASE RxNext
    <2>1. UNCHANGED <<ppsTimer, reqPps, rev, userLeft>>
      BY <1>3 DEF RxNext, RxWaitPHY, RxAllocFails, RxRead, RxReset, RxDrop, RxCheckMessageID,
                  RxStoreMessageID, Block, RxFrame
    <2>2. UNCHANGED pc \/ \E s : pc' = [pc EXCEPT !["RX"] = s]
      BY <1>3 DEF RxNext, RxWaitPHY, RxAllocFails, RxRead, RxReset, RxDrop, RxCheckMessageID,
                  RxStoreMessageID, Block, RxGoto, TellTxAndYield, StartI2C
    <2>3. ev["PE"] \subseteq ev'["PE"] /\ ev'["PE"] \cap UserFlags \subseteq ev["PE"]
      BY <1>3, <1>e
      DEF RxNext, RxWaitPHY, RxAllocFails, RxRead, RxReset, RxDrop, RxCheckMessageID,
          RxStoreMessageID, Block, TellTxAndYield, UserFlags
    <2>. QED
      BY <2>1, <2>2, <2>3, <1>1, <1>e
  <1>4. CASE HrNext
    <2>1. UNCHANGED <<ppsTimer, reqPps, rev, userLeft>>
      BY <1>4 DEF HrNext, HrResetLayer, HrResetTx, HrIndicate, HrRequest, HrRequested,
                  HrWaitPHY, HrHardResetRequested, HrWaitPE, Block, HrFrame
    <2>2. UNCHANGED pc \/ \E s : pc' = [pc EXCEPT !["HR"] = s]
      BY <1>4 DEF HrNext, HrResetLayer, HrResetTx, HrIndicate, HrRequest, HrRequested,
                  HrWaitPHY, HrHardResetRequested, HrWaitPE, Block, HrGoto, StartI2C
    <2>3. ev["PE"] \subseteq ev'["PE"] /\ ev'["PE"] \cap UserFlags \subseteq ev["PE"]
      BY <1>4, <1>e
      DEF HrNext, HrResetLayer, HrResetTx, HrIndicate, HrRequest, HrRequested,
          HrWaitPHY, HrHardResetRequested, HrWaitPE, Block, UserFlags
    <2>. QED
      BY <2>1, <2>2, <2>3, <1>1, <1>e
  <1>5. CASE IntNNext \/ BusDone
    <2>1. CASE IntNPoll \/ BusDone
      BY <2>1, <1>1 DEF IntNPoll, BusDone
    <2>2. ASSUME NEW t \in Thread, IntNTell(t) PROVE PpsInv'
      <3>1. status \cap UserFlags = {}
        BY DEF TypeInv, TypeOK, WorldOK, Interrupt, UserFlags
      <3>2. /\ ev["PE"] \subseteq ev'["PE"] /\ ev'["PE"] \cap UserFlags \subseteq ev["PE"]
            /\ UNCHANGED <<ppsTimer, reqPps, rev, userLeft, pc>>
        BY <2>2, <3>1, <1>e DEF IntNTell
      <3>. QED
        BY <3>2, <1>1
    <2>. QED
      BY <1>5, <2>1, <2>2 DEF IntNNext
  <1>6. CASE Chip \/ Outside
    <2>1. CASE UNCHANGED <<ev, userLeft>>
      BY <1>6, <2>1, <1>1 DEF Chip, Outside, TransmitSucceeds, TransmitFails, HardResetSignalled,
                  PartnerSends, PartnerRepeats, PartnerHardResets, OverTemp, UserSignals,
                  SoftwareStays
    <2>2. CASE UserSignals
      <3>1. userLeft' \subseteq userLeft /\ userLeft' # userLeft
            /\ UNCHANGED <<pc, ppsTimer, reqPps, rev>>
        BY <2>2 DEF UserSignals, SoftwareStays
      <3>2. userLeft' # UserEvents
        BY <3>1 DEF TypeInv, TypeOK, WorldOK
      <3>. QED
        BY <3>2 DEF PpsInv
    <2>. QED
      BY <1>6, <2>1, <2>2 DEF Chip, Outside, TransmitSucceeds, TransmitFails, HardResetSignalled,
                  PartnerSends, PartnerRepeats, PartnerHardResets, OverTemp
  <1>7. CASE UNCHANGED vars
    BY <1>7, <1>1
  <1>. QED
    BY <1>2, <1>3, <1>4, <1>5, <1>6, <1>7, TimerPps DEF Next, Stack, Strike

\* In PE_SNK_Ready with a PPS Request in force, the timer that repeats the Request is running
\* or has just run out, until the user sends an event: whatever messages, resets and
\* renegotiations came before, and for any device policy manager.
THEOREM PpsCorrect == Spec => []PpsKept
  <1>1. Init => PpsInv
    BY DEF Init, PpsInv, PpsPlaces, UserFlags, Thread, Prl
  <1>2. TypeInv /\ PpsInv /\ [Next]_vars => PpsInv'
    BY PePps, OthersPps
  <1>3. PpsInv => PpsKept
    BY DEF PpsInv, PpsKept, PpsPlaces
  <1>. QED
    BY InitType, NextType, <1>1, <1>2, <1>3, PTL DEF Spec

-----------------------------------------------------------------------------
(* The message that is being transmitted.                                  *)

\* What the TX thread reports, and where it works on a message.
Outcomes == {"TX_DONE", "TX_ERR"}
Working  == {"Construct", "AmsWait", "Send", "WaitResponse", "MatchMessageID"}

\* No Hard Reset of the partner is anywhere on its way to the engine.
NoneSignalled ==
    /\ "I_HARDRST" \notin intr /\ "I_HARDRST" \notin status /\ "I_HARDRST" \notin ev["HR"]
    /\ "RESET" \notin ev["PE"]
    /\ pc["HR"] \in {"ResetLayer.rx", "ResetLayer.tx"} => hrByPe

\* The engine waits for an outcome that has not been reported.
AwaitsOutcome == pc["PE"] \in TxWaits /\ ev["PE"] \cap Outcomes = {}

\* The message the engine waits for is in the TX thread's mailbox or in its hands; at any
\* other time the thread has none, and no outcome is left over.
InHand ==
    /\ IF AwaitsOutcome
       THEN (txMail = <<ToSend>> /\ txMsg = NULL) \/ (txMail = <<>> /\ txMsg = ToSend)
       ELSE txMail = <<>> /\ txMsg = NULL
    /\ pc["PE"] \notin TxWaits => ev["PE"] \cap Outcomes = {}
    /\ "MSG_TX" \in ev["TX"] => txMail # <<>>
    /\ pc["TX"] = "WaitMessage" => txMsg = NULL
    /\ pc["TX"] \in Working => txMsg # NULL

\* The inductive invariant.
HandInv == resetsLeft <= MaxResets /\ (Unreset => NoneSignalled /\ InHand)

\* A step that leaves the transmission alone.
Aside == /\ pc'["PE"] = pc["PE"] /\ pc'["TX"] = pc["TX"]
         /\ UNCHANGED <<txMsg, txMail, req, sent>>
         /\ ev'["PE"] \cap Outcomes = ev["PE"] \cap Outcomes
         /\ "MSG_TX" \in ev'["TX"] => "MSG_TX" \in ev["TX"]

\* Such a step keeps the message where it is.
LEMMA AsideKeeps == InHand /\ Aside => InHand'
  <1>. SUFFICES ASSUME InHand, Aside PROVE InHand'
    OBVIOUS
  <1>1. AwaitsOutcome' = AwaitsOutcome /\ ToSend' = ToSend
    BY DEF Aside, AwaitsOutcome, ToSend
  <1>. QED
    BY <1>1 DEF Aside, InHand

-----------------------------------------------------------------------------
(* The other threads, the chip, the partner and the user.                  *)

\* The RX thread leaves the transmission alone, and reports no Hard Reset.
LEMMA RxAside ==
    ASSUME TypeInv, RxNext
    PROVE  Aside /\ (NoneSignalled => NoneSignalled') /\ resetsLeft' = resetsLeft
  <1>. USE DEF RxFrame, Outcomes
  <1>e. ev \in [Thread -> SUBSET Event]
    BY DEF TypeInv, TypeOK, KernelOK
  <1>1. UNCHANGED <<txMsg, txMail, req, sent, status, hrByPe, resetsLeft>>
    BY DEF RxNext, RxWaitPHY, RxAllocFails, RxRead, RxReset, RxCheckMessageID,
           RxStoreMessageID, Block, RxDrop
  <1>2. intr' = intr
    BY DEF RxNext, RxWaitPHY, RxAllocFails, RxRead, RxReset, RxCheckMessageID,
           RxStoreMessageID, Block, RxDrop, FusbReadMessage
  <1>3. UNCHANGED pc \/ \E s : pc' = [pc EXCEPT !["RX"] = s]
    BY DEF RxNext, RxWaitPHY, RxAllocFails, RxRead, RxReset, RxCheckMessageID,
           RxStoreMessageID, Block, RxDrop, RxGoto, StartI2C, TellTxAndYield
  <1>4. pc'["PE"] = pc["PE"] /\ pc'["TX"] = pc["TX"] /\ pc'["HR"] = pc["HR"]
    BY <1>3 DEF TypeInv, TypeOK, KernelOK, PcOK, Thread, Prl
  <1>5. /\ ev'["PE"] \in {ev["PE"], ev["PE"] \cup {"MSG_RX"}}
        /\ ev'["HR"] = ev["HR"]
        /\ "MSG_TX" \in ev'["TX"] => "MSG_TX" \in ev["TX"]
    BY <1>e DEF RxNext, RxWaitPHY, RxAllocFails, RxRead, RxReset, RxCheckMessageID,
           RxStoreMessageID, Block, RxDrop, TellTxAndYield, Thread, Prl
  <1>. QED
    BY <1>1, <1>2, <1>4, <1>5 DEF Aside, NoneSignalled

\* What the HR thread waits for.
LEMMA HrWaitsFor == Mask["ResetLayer"] = {"RESET", "I_HARDRST"}
  BY Zenon DEF Mask, PeWaits, PrlWaits, TxWaits

\* So does the HR thread: without an I_HARDRST it was the engine that asked for the reset.
LEMMA HrAside ==
    ASSUME TypeInv, HrNext
    PROVE  Aside /\ (NoneSignalled => NoneSignalled') /\ resetsLeft' = resetsLeft
  <1>. USE DEF HrFrame
  <1>e. ev \in [Thread -> SUBSET Event]
    BY DEF TypeInv, TypeOK, KernelOK
  <1>1. UNCHANGED <<txMsg, txMail, req, sent, status, resetsLeft>>
    BY DEF HrNext, HrResetLayer, HrResetTx, HrIndicate, HrRequest, HrRequested,
           HrWaitPHY, HrHardResetRequested, HrWaitPE, Block
  <1>2. intr' = intr
    BY DEF HrNext, HrResetLayer, HrResetTx, HrIndicate, HrRequest, HrRequested,
           HrWaitPHY, HrHardResetRequested, HrWaitPE, Block, FusbSendHardrst
  <1>g. ASSUME NEW s, pc' = [pc EXCEPT !["HR"] = s]
        PROVE  pc'["PE"] = pc["PE"] /\ pc'["TX"] = pc["TX"] /\ pc'["HR"] = s
    BY <1>g DEF TypeInv, TypeOK, KernelOK, PcOK, Thread, Prl
  <1>3. UNCHANGED pc \/ \E s : pc' = [pc EXCEPT !["HR"] = s]
    BY DEF HrNext, HrResetLayer, HrResetTx, HrIndicate, HrRequest, HrRequested,
           HrWaitPHY, HrHardResetRequested, HrWaitPE, Block, HrGoto, StartI2C
  <1>4. pc'["PE"] = pc["PE"] /\ pc'["TX"] = pc["TX"]
    BY <1>3, <1>g
  <1>5. /\ ev'["PE"] \in {ev["PE"], ev["PE"] \cup {"RESET"}, ev["PE"] \cup {"HARD_SENT"}}
        /\ ev'["HR"] \subseteq ev["HR"]
        /\ "MSG_TX" \in ev'["TX"] => "MSG_TX" \in ev["TX"]
    BY <1>e DEF HrNext, HrResetLayer, HrResetTx, HrIndicate, HrRequest, HrRequested,
           HrWaitPHY, HrHardResetRequested, HrWaitPE, Block, Thread, Prl
  <1>6. ASSUME NoneSignalled
        PROVE  /\ "RESET" \notin ev'["PE"]
               /\ pc'["HR"] \in {"ResetLayer.rx", "ResetLayer.tx"} => hrByPe'
    <2>1. CASE HrResetLayer
      <3>1. "RESET" \in Pending("HR")
        BY <2>1, <1>6, HrWaitsFor DEF HrResetLayer, HrRuns, Pending, NoneSignalled
      <3>2. ev'["PE"] = ev["PE"]
        BY <2>1, <1>e DEF HrResetLayer, Thread, Prl
      <3>3. hrByPe'
        BY <2>1, <3>1 DEF HrResetLayer
      <3>. QED
        BY <3>2, <3>3, <1>6 DEF NoneSignalled
    <2>2. CASE HrResetTx \/ HrRequest
      <3>1. /\ ev'["PE"] = ev["PE"] /\ hrByPe' = hrByPe
            /\ pc["HR"] \in {"ResetLayer.rx", "ResetLayer.tx"}
        BY <2>2, <1>e DEF HrResetTx, HrRequest, HrRuns, Thread, Prl
      <3>. QED
        BY <3>1, <1>6 DEF NoneSignalled
    <2>3. CASE HrIndicate
      BY <2>3, <1>6 DEF HrIndicate, HrRuns, NoneSignalled
    <2>4. CASE HrRequested \/ HrWaitPHY \/ HrHardResetRequested \/ HrWaitPE
      <3>1. \E s \in {"HardWaitPHY", "HardResetRequested", "WaitPE", "ResetLayer"} :
                pc' = [pc EXCEPT !["HR"] = s]
        BY <2>4 DEF HrRequested, HrWaitPHY, HrHardResetRequested, HrWaitPE, HrGoto
      <3>2. pc'["HR"] \notin {"ResetLayer.rx", "ResetLayer.tx"}
        BY <3>1, <1>g
      <3>3. ev'["PE"] \in {ev["PE"], ev["PE"] \cup {"HARD_SENT"}}
        BY <2>4, <1>e DEF HrRequested, HrWaitPHY, HrHardResetRequested, HrWaitPE, Thread, Prl
      <3>. QED
        BY <3>2, <3>3, <1>6 DEF NoneSignalled
    <2>5. CASE Block("HR")
      BY <2>5, <1>6 DEF Block, NoneSignalled
    <2>. QED
      BY <2>1, <2>2, <2>3, <2>4, <2>5 DEF HrNext
  <1>. QED
    BY <1>1, <1>2, <1>4, <1>5, <1>6 DEF Aside, NoneSignalled, Outcomes

\* So do the poller, the bus, the chip, the partner until it signals a Hard Reset, and the
\* user.
LEMMA WorldAside ==
    ASSUME TypeInv, IntNNext \/ BusDone \/ Chip \/ Outside \/ UNCHANGED vars
    PROVE  /\ Aside
           /\ resetsLeft' \in {resetsLeft, resetsLeft - 1}
           /\ NoneSignalled /\ resetsLeft' = resetsLeft => NoneSignalled'
  <1>. USE DEF Outcomes
  <1>e. ev \in [Thread -> SUBSET Event] /\ resetsLeft \in Nat
    BY DEF TypeInv, TypeOK, KernelOK, WorldOK
  <1>1. CASE IntNPoll \/ BusDone \/ UNCHANGED vars
    <2>1. UNCHANGED <<pc, ev, txMsg, txMail, req, sent, hrByPe, resetsLeft>>
      BY <1>1 DEF IntNPoll, BusDone
    <2>2. UNCHANGED <<intr, status>> \/ (status' = intr /\ intr' = {})
      BY <1>1 DEF IntNPoll, BusDone, FusbGetStatus
    <2>. QED
      BY <2>1, <2>2 DEF Aside, NoneSignalled
  <1>2. ASSUME NEW t \in Thread, IntNTell(t)
        PROVE  Aside /\ resetsLeft' = resetsLeft /\ (NoneSignalled => NoneSignalled')
    <2>1. /\ UNCHANGED <<pc, txMsg, txMail, req, sent, hrByPe, resetsLeft, intr>>
          /\ ev' = [ev EXCEPT ![t] = @ \cup (status \cap For[t])]
          /\ status' \subseteq status
      BY <1>2 DEF IntNTell
    <2>2. status \cap (Outcomes \cup {"MSG_TX", "RESET"}) = {}
      BY DEF TypeInv, TypeOK, WorldOK, Interrupt
    <2>3. \A u \in Thread : ev[u] \subseteq ev'[u] /\ ev'[u] \subseteq ev[u] \cup status
      BY <2>1, <1>e
    <2>4. ev["PE"] \subseteq ev'["PE"] /\ ev'["PE"] \subseteq ev["PE"] \cup status
          /\ ev'["TX"] \subseteq ev["TX"] \cup status /\ ev'["HR"] \subseteq ev["HR"] \cup status
      BY <2>3 DEF Thread, Prl
    <2>5. ev'["PE"] \cap Outcomes = ev["PE"] \cap Outcomes
      BY <2>2, <2>4
    <2>. QED
      BY <2>1, <2>2, <2>4, <2>5 DEF Aside, NoneSignalled
  <1>3. CASE Chip \/ Outside
    <2>1. UNCHANGED <<pc, txMsg, txMail, req, sent, hrByPe, status>>
      BY <1>3 DEF Chip, Outside, TransmitSucceeds, TransmitFails, HardResetSignalled,
                  PartnerSends, PartnerRepeats, PartnerHardResets, OverTemp, UserSignals,
                  SoftwareStays
    <2>2. \/ ev' = ev
          \/ \E x \in userLeft : ev' = [ev EXCEPT !["PE"] = @ \cup {x}]
      BY <1>3 DEF Chip, Outside, TransmitSucceeds, TransmitFails, HardResetSignalled,
                  PartnerSends, PartnerRepeats, PartnerHardResets, OverTemp, UserSignals
    <2>3. userLeft \subseteq {"NEW_POWER", "GET_SOURCE_CAP"}
      BY BoundAssumption DEF TypeInv, TypeOK, WorldOK
    <2>4. /\ ev'["PE"] \cap Outcomes = ev["PE"] \cap Outcomes
          /\ "RESET" \in ev'["PE"] => "RESET" \in ev["PE"]
          /\ ev'["TX"] = ev["TX"] /\ ev'["HR"] = ev["HR"]
      BY <2>2, <2>3, <1>e DEF Thread, Prl
    <2>5. /\ resetsLeft' \in {resetsLeft, resetsLeft - 1}
          /\ resetsLeft' = resetsLeft /\ "I_HARDRST" \notin intr => "I_HARDRST" \notin intr'
      <3>1. CASE PartnerHardResets
        <4>1. resetsLeft' = resetsLeft - 1
          BY <3>1 DEF PartnerHardResets
        <4>. QED
          BY <4>1, <1>e
      <3>2. CASE ~PartnerHardResets
        <4>1. resetsLeft' = resetsLeft
          BY <1>3, <3>2 DEF Chip, Outside, TransmitSucceeds, TransmitFails, HardResetSignalled,
                  PartnerSends, PartnerRepeats, OverTemp, UserSignals
        <4>2. "I_HARDRST" \notin intr => "I_HARDRST" \notin intr'
          BY <1>3, <3>2 DEF Chip, Outside, TransmitSucceeds, TransmitFails, HardResetSignalled,
                  PartnerSends, PartnerRepeats, OverTemp, UserSignals, Receive
        <4>. QED
          BY <4>1, <4>2
      <3>. QED
        BY <3>1, <3>2
    <2>. QED
      BY <2>1, <2>4, <2>5 DEF Aside, NoneSignalled
  <1>. QED
    BY <1>1, <1>2, <1>3 DEF IntNNext

-----------------------------------------------------------------------------
(* The TX thread.                                                          *)

\* The TX thread keeps its message, or keeps having none, and goes to s.
LEMMA TxKeeps ==
    ASSUME TypeInv, InHand, NEW s, UNCHANGED pc \/ pc' = [pc EXCEPT !["TX"] = s],
           s = "WaitMessage" => txMsg = NULL, s \in Working => txMsg # NULL,
           UNCHANGED <<txMsg, txMail, req, sent>>,
           ev'["PE"] = ev["PE"], ev'["TX"] \subseteq ev["TX"]
    PROVE  InHand'
  <1>1. pc'["PE"] = pc["PE"] /\ pc'["TX"] \in {pc["TX"], s}
    BY DEF TypeInv, TypeOK, KernelOK, PcOK, Thread, Prl
  <1>2. AwaitsOutcome' = AwaitsOutcome /\ ToSend' = ToSend
    BY <1>1 DEF AwaitsOutcome, ToSend
  <1>. QED
    BY <1>1, <1>2 DEF InHand

\* It has a message only while the engine awaits its outcome.
LEMMA TxHas ==
    ASSUME InHand, txMsg # NULL
    PROVE  AwaitsOutcome /\ txMail = <<>> /\ txMsg = ToSend
  BY DEF InHand

\* It reports the outcome and forgets the message.
LEMMA TxReports ==
    ASSUME TypeInv, InHand, txMsg # NULL, NEW e \in Outcomes, NEW E, Report(e, E),
           UNCHANGED <<txMail, req, sent>>
    PROVE  InHand' /\ ev'["PE"] = ev["PE"] \cup {e}
  <1>1. AwaitsOutcome /\ txMail = <<>>
    BY TxHas
  <1>2. /\ pc'["PE"] = pc["PE"] /\ pc'["TX"] = "WaitMessage" /\ txMsg' = NULL
        /\ ev'["PE"] = ev["PE"] \cup {e} /\ ev'["TX"] = ev["TX"] \ E
    BY DEF Report, TxGoto, TypeInv, TypeOK, KernelOK, PcOK, Thread, Prl
  <1>3. ~AwaitsOutcome'
    BY <1>2 DEF AwaitsOutcome
  <1>. QED
    BY <1>1, <1>2, <1>3 DEF InHand, AwaitsOutcome, Working

\* It takes up the message that was posted.
LEMMA TxFetches ==
    ASSUME TypeInv, InHand, "MSG_TX" \in ev["TX"], FetchMessage,
           pc["TX"] = "WaitMessage", TxGoto("Construct"), UNCHANGED <<req, sent>>,
           ev'["PE"] = ev["PE"], "MSG_TX" \notin ev'["TX"]
    PROVE  InHand'
  <1>1. AwaitsOutcome /\ txMail = <<ToSend>>
    BY DEF InHand
  <1>2. txMail' = <<>> /\ txMsg' = ToSend
    BY <1>1 DEF FetchMessage
  <1>3. ToSend \in Buf
    <2>1. txMail \in Seq(Buf) /\ Len(txMail) = 1 /\ txMail[1] = ToSend
      BY <1>1 DEF TypeInv, TypeOK, PrlOK
    <2>. QED
      BY <2>1
  <1>4. pc'["PE"] = pc["PE"] /\ pc'["TX"] = "Construct"
    BY DEF TxGoto, TypeInv, TypeOK, KernelOK, PcOK, Thread, Prl
  <1>5. AwaitsOutcome' /\ ToSend' = ToSend
    BY <1>1, <1>4 DEF AwaitsOutcome, ToSend
  <1>6. ToSend # NULL
    BY <1>3, BufAssumption
  <1>. QED
    BY <1>1, <1>2, <1>4, <1>5, <1>6 DEF InHand, AwaitsOutcome, Working

\* Every step of the TX thread keeps track of its message.
LEMMA TxHand ==
    ASSUME TypeInv, InHand, TxNext
    PROVE  InHand' /\ ev'["PE"] \subseteq ev["PE"] \cup Outcomes
  <1>. USE DEF TxFrame
  <1>e. ev \in [Thread -> SUBSET Event]
    BY DEF TypeInv, TypeOK, KernelOK
  <1>o. "TX_ERR" \in Outcomes /\ "TX_DONE" \in Outcomes
    BY DEF Outcomes
  <1>c. ASSUME NEW E, TxClear(E) PROVE ev'["PE"] = ev["PE"] /\ ev'["TX"] \subseteq ev["TX"]
    BY <1>c, <1>e DEF TxClear, Thread, Prl
  <1>g. ASSUME NEW evt, NEW E, GiveUp(evt, E)
        PROVE  InHand' /\ ev'["PE"] = ev["PE"]
    <2>1. /\ pc' = [pc EXCEPT !["TX"] = "PHYReset"] /\ TxClear(E)
          /\ UNCHANGED <<txMsg, txMail, req, sent>>
      BY <1>g DEF GiveUp, StartI2C, DiscardMessage
    <2>2. ev'["PE"] = ev["PE"] /\ ev'["TX"] \subseteq ev["TX"]
      BY <2>1, <1>c
    <2>3. "PHYReset" # "WaitMessage" /\ "PHYReset" \notin Working
      BY DEF Working
    <2>. QED
      BY <2>1, <2>2, <2>3, TxKeeps
  <1>1. CASE PHYReset
    <2>1. UNCHANGED <<txMail, req, sent>>
      BY <1>1 DEF PHYReset
    <2>2. CASE txMsg # NULL
      BY <1>1, <2>1, <2>2, <1>o, TxReports DEF PHYReset
    <2>3. CASE txMsg = NULL
      <3>1. TxGoto("WaitMessage") /\ UNCHANGED <<ev, txMsg>>
        BY <1>1, <2>3 DEF PHYReset
      <3>. QED
        BY <2>1, <2>3, <3>1, TxKeeps DEF TxGoto, Working
    <2>. QED
      BY <2>2, <2>3
  <1>2. CASE WaitMessage
    <2>1. CASE GiveUp(Pending("TX"), Mask["WaitMessage"])
      BY <2>1, <1>g
    <2>2. CASE /\ Pending("TX") = {"MSG_TX"} /\ FetchMessage /\ TxGoto("Construct")
               /\ UNCHANGED <<req, sent>>
               /\ \/ ev' = [ev EXCEPT !["TX"] = @ \ {"MSG_TX"}, !["RX"] = @ \cup {"RESET"}]
                  \/ TxClear({"MSG_TX"})
      <3>1. "MSG_TX" \in ev["TX"] /\ pc["TX"] = "WaitMessage"
        BY <1>2, <2>2 DEF Pending, WaitMessage, TxRuns
      <3>2. ev'["PE"] = ev["PE"] /\ "MSG_TX" \notin ev'["TX"]
        BY <2>2, <1>e DEF TxClear, Thread, Prl
      <3>. QED
        BY <2>2, <3>1, <3>2, TxFetches
    <2>. QED
      BY <1>2, <2>1, <2>2 DEF WaitMessage
  <1>3. CASE ConstructMessage
    <2>0. txMsg # NULL
      BY <1>3 DEF ConstructMessage, TxRuns, InHand, Working
    <2>1. CASE GiveUp(ev["TX"] \cap {"RESET", "DISCARD"}, {"RESET", "DISCARD"})
      BY <2>1, <1>g
    <2>2. CASE /\ \E s \in {"AmsWait", "Send"} : pc' = [pc EXCEPT !["TX"] = s]
               /\ TxClear({"START_AMS"}) \/ UNCHANGED ev
               /\ UNCHANGED <<txMsg, txMail, req, sent>>
      <3>1. ev'["PE"] = ev["PE"] /\ ev'["TX"] \subseteq ev["TX"]
        BY <2>2, <1>c
      <3>. QED
        BY <2>0, <2>2, <3>1, TxKeeps
    <2>. QED
      BY <1>3, <2>1, <2>2 DEF ConstructMessage, TxGoto, StartI2C
  <1>4. CASE AmsGranted \/ SendMessage
    <2>1. \E s \in {"Send", "WaitResponse"} : pc' = [pc EXCEPT !["TX"] = s]
      BY <1>4 DEF AmsGranted, SendMessage, TxGoto
    <2>2. txMsg # NULL
      BY <1>4 DEF AmsGranted, SendMessage, TxRuns, InHand, Working
    <2>3. UNCHANGED <<ev, txMsg, txMail, req, sent>>
      BY <1>4 DEF AmsGranted, SendMessage
    <2>. QED
      BY <2>1, <2>2, <2>3, TxKeeps
  <1>5. CASE WaitResponse
    <2>0. txMsg # NULL
      BY <1>5 DEF WaitResponse, TxRuns, InHand, Working
    <2>1. CASE GiveUp(Pending("TX"), Mask["WaitResponse"])
      BY <2>1, <1>g
    <2>2. CASE /\ TxClear(Mask["WaitResponse"]) /\ StartI2C("TX", "MatchMessageID")
               /\ UNCHANGED <<txMsg, txMail, req, sent>>
      <3>1. ev'["PE"] = ev["PE"] /\ ev'["TX"] \subseteq ev["TX"]
        BY <2>2, <1>c
      <3>2. pc' = [pc EXCEPT !["TX"] = "MatchMessageID"]
        BY <2>2 DEF StartI2C
      <3>3. "MatchMessageID" # "WaitMessage"
        OBVIOUS
      <3>. QED
        BY <2>0, <2>2, <3>1, <3>2, <3>3, TxKeeps
    <2>3. CASE Report("TX_ERR", {"I_RETRYFAIL"}) /\ UNCHANGED <<txMail, req, sent>>
      BY <2>0, <2>3, <1>o, TxReports
    <2>. QED
      BY <1>5, <2>1, <2>2, <2>3 DEF WaitResponse
  <1>6. CASE MatchMessageID
    <2>0. txMsg # NULL
      BY <1>6 DEF MatchMessageID, TxRuns, InHand, Working
    <2>1. /\ UNCHANGED <<txMail, req, sent>>
          /\ Report("TX_DONE", {}) \/ Report("TX_ERR", {})
      BY <1>6 DEF MatchMessageID
    <2>. QED
      BY <2>0, <2>1, <1>o, TxReports
  <1>7. CASE Block("TX")
    <2>1. UNCHANGED <<pc, ev, txMsg, txMail, req, sent>>
      BY <1>7 DEF Block
    <2>. QED
      BY <2>1, AsideKeeps DEF Aside
  <1>. QED
    BY <1>1, <1>2, <1>3, <1>4, <1>5, <1>6, <1>7 DEF TxNext

\* It reports no Hard Reset either.
LEMMA TxQuiet ==
    ASSUME TypeInv, TxNext
    PROVE  /\ pc'["PE"] = pc["PE"] /\ pc'["HR"] = pc["HR"]
           /\ UNCHANGED <<status, hrByPe, resetsLeft>>
           /\ ev'["HR"] = ev["HR"]
           /\ "I_HARDRST" \in intr' => "I_HARDRST" \in intr
  <1>. USE DEF TxFrame
  <1>e. ev \in [Thread -> SUBSET Event]
    BY DEF TypeInv, TypeOK, KernelOK
  <1>1. UNCHANGED <<status, hrByPe, resetsLeft>>
    BY DEF TxNext, PHYReset, WaitMessage, ConstructMessage, AmsGranted, SendMessage,
           WaitResponse, MatchMessageID, Block, GiveUp
  <1>2. UNCHANGED pc \/ \E s : pc' = [pc EXCEPT !["TX"] = s]
    BY DEF TxNext, PHYReset, WaitMessage, ConstructMessage, AmsGranted, SendMessage,
           WaitResponse, MatchMessageID, Block, GiveUp, TxGoto, StartI2C, Report, DiscardMessage
  <1>3. pc'["PE"] = pc["PE"] /\ pc'["HR"] = pc["HR"]
    BY <1>2 DEF TypeInv, TypeOK, KernelOK, PcOK, Thread, Prl
  <1>4. ev'["HR"] = ev["HR"]
    BY <1>e DEF TxNext, PHYReset, WaitMessage, ConstructMessage, AmsGranted, SendMessage,
           WaitResponse, MatchMessageID, Block, GiveUp, TxClear, Report, Thread, Prl
  <1>5. "I_HARDRST" \in intr' => "I_HARDRST" \in intr
    BY DEF TxNext, PHYReset, WaitMessage, ConstructMessage, AmsGranted, SendMessage,
           WaitResponse, MatchMessageID, Block, GiveUp, FusbReset, FusbSendMessage, FusbReadMessage
  <1>. QED
    BY <1>1, <1>3, <1>4, <1>5

-----------------------------------------------------------------------------
(* The policy engine.                                                      *)

\* The engine's step raises no flag of its own, and none that tells of a Hard Reset of the
\* partner.
PeRaises ==
    /\ ev'["PE"] \subseteq ev["PE"]
    /\ ev'["HR"] \subseteq ev["HR"] \cup {"RESET", "DONE"}
    /\ UNCHANGED <<hrByPe, status, intr, resetsLeft, txMsg>>
    /\ pc'["HR"] = pc["HR"] /\ pc'["TX"] = pc["TX"]

\* What its steps do to the flags, one kind at a time.
PeSignals ==
    \/ UNCHANGED ev
    \/ \E s : Woken(s)
    \/ SignalTx("START_AMS")
    \/ SignalHr("RESET") \/ SignalHr("DONE")
    \/ \E b : Submit(b)

\* Every step of the engine is one of these.
LEMMA PeSignalsOnly ==
    ASSUME PeNext
    PROVE  PeSignals
  <1>. USE DEF PeSignals
  <1>1. CASE \/ Startup \/ Discovery \/ EvalCap \/ NotSupportedReceived \/ SourceUnresponsive
             \/ PeAllocFails
    BY <1>1
    DEF Startup, Discovery, EvalCap, NotSupportedReceived, SourceUnresponsive, PeAllocFails
  <1>2. CASE WaitCap \/ SelectCapSent \/ SelectCapReply \/ TransitionSink \/ ChunkReceived
             \/ HardResetSent
    BY <1>2 DEF WaitCap, SelectCapSent, SelectCapReply, TransitionSink, ChunkReceived,
                HardResetSent, OnReset
  <1>3. CASE Ready \/ SelectCap \/ HardReset \/ TransitionDefault
    BY <1>3 DEF Ready, ReadyStartAms, ReadyMessage, OnReset, SelectCap, HardReset,
                TransitionDefault
  <1>4. CASE GetSourceCap \/ GiveSinkCap \/ SoftReset \/ SendSoftReset \/ SendNotSupported
    BY <1>4 DEF GetSourceCap, GiveSinkCap, SoftReset, SendSoftReset, SendNotSupported,
                Transmit, AfterTransmit, OnReset
  <1>. QED
    BY <1>1, <1>2, <1>3, <1>4 DEF PeNext

\* Every step of the engine goes to a place of its own, or nowhere, and leaves the TX
\* thread's message alone.
LEMMA PeStays ==
    ASSUME PeNext
    PROVE  (UNCHANGED pc \/ \E s : Goto(s)) /\ UNCHANGED <<hrByPe, txMsg>>
  <1>. USE DEF Leave
  <1>1. CASE \/ Startup \/ Discovery \/ EvalCap \/ NotSupportedReceived \/ SourceUnresponsive
             \/ PeAllocFails
    BY <1>1
    DEF Startup, Discovery, EvalCap, NotSupportedReceived, SourceUnresponsive, PeAllocFails
  <1>2. CASE WaitCap \/ SelectCapSent \/ SelectCapReply \/ TransitionSink \/ ChunkReceived
             \/ HardResetSent
    BY <1>2 DEF WaitCap, SelectCapSent, SelectCapReply, TransitionSink, ChunkReceived,
                HardResetSent, OnReset
  <1>3. CASE Ready \/ SelectCap \/ HardReset \/ TransitionDefault
    BY <1>3 DEF Ready, ReadyStartAms, ReadyMessage, ReadyStay, OnReset, SelectCap, HardReset,
                TransitionDefault
  <1>4. CASE GetSourceCap \/ GiveSinkCap \/ SoftReset \/ SendSoftReset \/ SendNotSupported
    BY <1>4 DEF GetSourceCap, GiveSinkCap, SoftReset, SendSoftReset, SendNotSupported,
                Transmit, AfterTransmit, OnReset
  <1>. QED
    BY <1>1, <1>2, <1>3, <1>4 DEF PeNext

\* The engine reports no Hard Reset of the partner.
LEMMA PeQuiet ==
    ASSUME TypeInv, PeNext
    PROVE  PeRaises
  <1>e. ev \in [Thread -> SUBSET Event]
    BY DEF TypeInv, TypeOK, KernelOK
  <1>1. ev'["PE"] \subseteq ev["PE"] /\ ev'["HR"] \subseteq ev["HR"] \cup {"RESET", "DONE"}
    BY PeSignalsOnly, <1>e DEF PeSignals, Woken, SignalTx, SignalHr, Submit, Thread, Prl
  <1>2. UNCHANGED <<status, intr, resetsLeft>>
    BY PeWorld
  <1>3. UNCHANGED <<hrByPe, txMsg>>
    BY PeStays
  <1>4. pc'["HR"] = pc["HR"] /\ pc'["TX"] = pc["TX"]
    BY PeStays DEF Goto, TypeInv, TypeOK, KernelOK, PcOK, Thread, Prl
  <1>. QED
    BY <1>1, <1>2, <1>3, <1>4 DEF PeRaises

\* Away from its transmissions the engine leaves the TX thread alone.
LEMMA HandAway ==
    ASSUME InHand, PeRaises, pc["PE"] \notin TxWaits, pc'["PE"] \notin TxWaits,
           UNCHANGED txMail, "MSG_TX" \in ev'["TX"] => "MSG_TX" \in ev["TX"]
    PROVE  InHand'
  <1>1. ~AwaitsOutcome /\ ~AwaitsOutcome'
    BY DEF AwaitsOutcome
  <1>. QED
    BY <1>1 DEF InHand, PeRaises

\* It posts the message it is going to wait for.
LEMMA HandSubmits ==
    ASSUME TypeInv, InHand, PeRaises, pc["PE"] \notin TxWaits, pc'["PE"] \in TxWaits,
           NEW b \in Buf, Submit(b), ToSend' = b
    PROVE  InHand'
  <1>1. txMail = <<>> /\ txMsg = NULL /\ ev["PE"] \cap Outcomes = {}
    BY DEF InHand, AwaitsOutcome
  <1>2. txMail' = <<b>>
    <2>1. Cardinality(Buf) \in Nat /\ Cardinality(Buf) # 0
      BY BufAssumption, FS_CardinalityType, FS_EmptySet
    <2>2. Len(<<>>) < Cardinality(Buf)
      BY <2>1
    <2>3. txMail' = Append(<<>>, b)
      BY <1>1, <2>2 DEF Submit, Post
    <2>. QED
      BY <2>3
  <1>3. txMsg' = NULL /\ ev'["PE"] \cap Outcomes = {} /\ pc'["TX"] = pc["TX"]
    BY <1>1 DEF PeRaises
  <1>4. txMail' # <<>>
    BY <1>2
  <1>. QED
    BY <1>1, <1>2, <1>3, <1>4 DEF InHand, AwaitsOutcome

\* It takes the outcome, by which the TX thread has let go of the message.
LEMMA HandTakes ==
    ASSUME TypeInv, NoneSignalled, InHand, PeRaises, NEW s \in TxWaits, Woken(s),
           pc'["PE"] \notin TxWaits, UNCHANGED txMail
    PROVE  InHand' /\ ~AwaitsOutcome
  <1>1. /\ pc["PE"] = s /\ ev'["PE"] = ev["PE"] \ TxOutcome /\ ev'["TX"] = ev["TX"]
        /\ ev["PE"] \cap TxOutcome # {}
    BY EngineMasks DEF Woken, At, Pending, TypeInv, TypeOK, KernelOK, Thread, Prl
  <1>2. ev["PE"] \cap Outcomes # {}
    BY <1>1 DEF NoneSignalled, TxOutcome, Outcomes
  <1>3. txMail = <<>> /\ txMsg = NULL /\ ~AwaitsOutcome /\ ~AwaitsOutcome'
    BY <1>2 DEF InHand, AwaitsOutcome
  <1>4. ev'["PE"] \cap Outcomes = {}
    BY <1>1 DEF TxOutcome, Outcomes
  <1>. QED
    BY <1>1, <1>3, <1>4 DEF InHand, PeRaises

\* No message that was received takes it straight to a transmission's wait.
LEMMA AfterNotTx ==
    /\ \A type : AfterReply(type) \notin TxWaits
    /\ \A type : AfterReady(type) \notin TxWaits
    /\ \A type : AfterSoftReset(type) \notin TxWaits
  <1>1. ASSUME NEW type PROVE AfterReply(type) \notin TxWaits
    BY Zenon DEF AfterReply, TxWaits
  <1>2. ASSUME NEW type PROVE AfterReady(type) \notin TxWaits
    BY Zenon DEF AfterReady, TxWaits
  <1>3. ASSUME NEW type PROVE AfterSoftReset(type) \notin TxWaits
    BY Zenon DEF AfterSoftReset, TxWaits
  <1>. QED
    BY <1>1, <1>2, <1>3

\* Every step of the engine keeps track of the message.
LEMMA PeHand ==
    ASSUME TypeInv, BufferInv, NoneSignalled, InHand, PeNext
    PROVE  InHand'
  <1>. USE DEF Leave, At
  <1>e. ev \in [Thread -> SUBSET Event]
    BY DEF TypeInv, TypeOK, KernelOK
  <1>p. PeRaises
    BY PeQuiet
  <1>n. {"Startup", "Discovery", "WaitCap", "EvalCap", "SelectCap", "SelectCap.rsp",
         "TransitionSink", "Ready", "GetSourceCap", "GiveSinkCap", "SoftReset",
         "SendSoftReset", "SendSoftReset.rsp",
         "SendNotSupported", "ChunkReceived", "NotSupportedReceived", "HardReset",
         "HardReset.sent", "TransitionDefault", "SourceUnresponsive"} \cap TxWaits = {}
    BY DEF TxWaits
  <1>a. ASSUME NEW r, r \notin TxWaits, pc["PE"] \notin TxWaits, Goto(r), UNCHANGED txMail,
               "MSG_TX" \in ev'["TX"] => "MSG_TX" \in ev["TX"]
        PROVE  InHand'
    BY <1>a, <1>p, PeAt, HandAway
  <1>u. ASSUME NEW r, r \notin TxWaits, pc["PE"] \notin TxWaits, Goto(r), UNCHANGED <<ev, txMail>>
        PROVE  InHand'
    BY <1>u, <1>a
  <1>w. ASSUME NEW s, NEW r, s \notin TxWaits, r \notin TxWaits, Woken(s), Goto(r), UNCHANGED txMail
        PROVE  InHand'
    <2>1. pc["PE"] = s /\ ev'["TX"] = ev["TX"]
      BY <1>w, <1>e DEF Woken, Thread, Prl
    <2>. QED
      BY <2>1, <1>w, <1>a
  <1>r. ASSUME NEW s, s \notin TxWaits, OnReset(s) PROVE InHand'
    BY <1>r, <1>n, <1>w DEF OnReset
  <1>h. ASSUME NEW e, NEW r, r \notin TxWaits, pc["PE"] \notin TxWaits, SignalHr(e), Goto(r),
               UNCHANGED txMail
        PROVE  InHand'
    <2>1. ev'["TX"] = ev["TX"]
      BY <1>h, <1>e DEF SignalHr, Thread, Prl
    <2>. QED
      BY <2>1, <1>h, <1>a
  <1>t. ASSUME NEW s, NEW type, NEW wait \in Sending, s \notin TxWaits, Transmit(s, type, wait)
        PROVE  InHand'
    <2>1. PICK b \in pool : sent' = b /\ Submit(b)
      BY <1>t DEF Transmit
    <2>2. b \in Buf /\ b # NULL
      BY BufAssumption DEF TypeInv, TypeOK, PoolOK
    <2>3. ToSend' = b
      BY <2>1, <2>2 DEF ToSend
    <2>4. pc["PE"] = s /\ pc'["PE"] \in TxWaits
      BY <1>t, PeAt DEF Transmit, Sending
    <2>. QED
      BY <1>t, <1>p, <2>1, <2>2, <2>3, <2>4, HandSubmits
  <1>f. ASSUME NEW s \in TxWaits, Woken(s), NEW r, r \notin TxWaits, Goto(r), UNCHANGED txMail
        PROVE  InHand'
    BY <1>f, <1>p, PeAt, HandTakes
  <1>y. ASSUME NEW s \in TxWaits, NEW done, NEW failed, done \notin TxWaits, failed \notin TxWaits,
               AfterTransmit(s, done, failed)
        PROVE  InHand'
    <2>1. PICK r \in {"TransitionDefault", done, failed} : Goto(r)
      BY <1>y DEF AfterTransmit
    <2>2. r \notin TxWaits
      BY <1>n, <1>y
    <2>. QED
      BY <1>y, <2>1, <2>2, <1>f DEF AfterTransmit
  <1>x. {"GetSourceCap.tx", "GiveSinkCap.tx", "SoftReset.tx", "SendSoftReset.tx",
         "SendNotSupported.tx"} \subseteq Sending /\ Sending \subseteq TxWaits
    BY DEF Sending, TxWaits
  <1>1. CASE Startup \/ Discovery \/ EvalCap \/ NotSupportedReceived
    BY <1>1, <1>n, <1>u DEF Startup, Discovery, EvalCap, NotSupportedReceived
  <1>2. CASE WaitCap
    BY <1>2, <1>n, <1>r, <1>w DEF WaitCap
  <1>3. CASE SelectCap
    <2>1. pc["PE"] = "SelectCap" /\ Submit(req) /\ Goto("SelectCap.tx") /\ UNCHANGED <<req, sent>>
      BY <1>3 DEF SelectCap
    <2>2. sent = NULL /\ req \in Buf
      BY <2>1
      DEF BufferInv, PlacesOK, Sending, TxWaits, TypeInv, TypeOK, PeOK, PointersOK, Requesting
    <2>3. ToSend' = req
      BY <2>1, <2>2 DEF ToSend
    <2>4. pc["PE"] \notin TxWaits /\ pc'["PE"] \in TxWaits
      BY <2>1, PeAt DEF TxWaits
    <2>. QED
      BY <1>p, <2>1, <2>2, <2>3, <2>4, HandSubmits
  <1>4. CASE SelectCapSent
    <2>1. CASE OnReset("SelectCap.tx")
      BY <2>1, <1>n, <1>f DEF OnReset, TxWaits
    <2>2. CASE Woken("SelectCap.tx") /\ Goto("HardReset") /\ UNCHANGED txMail
      BY <2>2, <1>n, <1>f DEF TxWaits
    <2>3. CASE Woken("SelectCap.tx") /\ Goto("SelectCap.rsp") /\ UNCHANGED txMail
      BY <2>3, <1>n, <1>f DEF TxWaits
    <2>. QED
      BY <1>4, <2>1, <2>2, <2>3 DEF SelectCapSent
  <1>5. CASE SelectCapReply
    BY <1>5, <1>n, <1>r, <1>w, AfterNotTx DEF SelectCapReply
  <1>6. CASE TransitionSink
    BY <1>6, <1>n, <1>r, <1>w DEF TransitionSink
  <1>7. CASE Ready
    <2>1. CASE ReadyStartAms
      <3>1. ev'["TX"] = ev["TX"] \cup {"START_AMS"} /\ UNCHANGED txMail /\ pc["PE"] = "Ready"
        BY <2>1, <1>e DEF ReadyStartAms, ReadyStay, SignalTx, Thread, Prl
      <3>2. PICK r \in {"GetSourceCap", "EvalCap", "SelectCap"} : Goto(r)
        BY <2>1 DEF ReadyStartAms
      <3>. QED
        BY <3>1, <3>2, <1>n, <1>a
    <2>2. CASE ReadyMessage
      BY <2>2, <1>n, <1>w, AfterNotTx DEF ReadyMessage, ReadyStay
    <2>3. CASE Woken("Ready") /\ Goto("HardReset") /\ Leave
      BY <2>3, <1>n, <1>w
    <2>. QED
      BY <1>7, <2>1, <2>2, <2>3, <1>n, <1>r DEF Ready
  <1>8. CASE GetSourceCap \/ GiveSinkCap \/ SoftReset \/ SendNotSupported
    BY <1>8, <1>n, <1>x, <1>t, <1>y DEF GetSourceCap, GiveSinkCap, SoftReset, SendNotSupported
  <1>9. CASE SendSoftReset
    BY <1>9, <1>n, <1>x, <1>t, <1>y, <1>r, <1>w, AfterNotTx DEF SendSoftReset
  <1>10. CASE HardReset
    BY <1>10, <1>n, <1>u, <1>h DEF HardReset
  <1>11. CASE TransitionDefault
    BY <1>11, <1>n, <1>h DEF TransitionDefault
  <1>12. CASE ChunkReceived \/ HardResetSent
    BY <1>12, <1>n, <1>r, <1>w DEF ChunkReceived, HardResetSent
  <1>13. CASE SourceUnresponsive \/ PeAllocFails
    <2>1. pc["PE"] \notin TxWaits /\ UNCHANGED <<pc, ev, txMail>>
      BY <1>13 DEF SourceUnresponsive, PeAllocFails, TxWaits
    <2>. QED
      BY <2>1, <1>p, HandAway
  <1>. QED
    BY <1>1, <1>2, <1>3, <1>4, <1>5, <1>6, <1>7, <1>8, <1>9, <1>10, <1>11, <1>12, <1>13 DEF PeNext

\* The engine's timers leave the transmission alone: they run out at other waits.
LEMMA TimerHand ==
    ASSUME TypeInv, InHand, PeTimer
    PROVE  InHand' /\ (NoneSignalled => NoneSignalled') /\ resetsLeft' = resetsLeft
  <1>w. UNCHANGED <<status, intr, resetsLeft>>
    BY PeWorld
  <1>1. CASE PpsTimerFires
    <2>1. /\ ev' = [ev EXCEPT !["PE"] = @ \cup {"PPS_REQUEST"}]
          /\ UNCHANGED <<pc, txMsg, txMail, req, sent, hrByPe>>
      BY <1>1 DEF PpsTimerFires
    <2>2. ev'["PE"] = ev["PE"] \cup {"PPS_REQUEST"} /\ ev'["TX"] = ev["TX"] /\ ev'["HR"] = ev["HR"]
      BY <2>1 DEF TypeInv, TypeOK, KernelOK, Thread, Prl
    <2>. QED
      BY <1>w, <2>1, <2>2, AsideKeeps DEF Aside, NoneSignalled, Outcomes
  <1>2. CASE ~PpsTimerFires
    <2>1. /\ UNCHANGED <<ev, txMsg, txMail, req, sent, hrByPe>>
          /\ pc["PE"] \notin TxWaits
          /\ \E s : s \notin TxWaits /\ Goto(s)
      BY <1>2 DEF PeTimer, NoCapabilities, NoReply, NoPsRdy, NoAccept, OnTimeout, RequestAgain,
                  ChunkingNotSupported, TimedOut, At, Leave, TxWaits
    <2>2. pc'["PE"] \notin TxWaits /\ pc'["TX"] = pc["TX"] /\ pc'["HR"] = pc["HR"]
      BY <2>1 DEF Goto, TypeInv, TypeOK, KernelOK, PcOK, Thread, Prl
    <2>3. PeRaises
      BY <1>w, <2>1, <2>2 DEF PeRaises
    <2>. QED
      BY <1>w, <2>1, <2>2, <2>3, HandAway DEF NoneSignalled
  <1>. QED
    BY <1>1, <1>2

-----------------------------------------------------------------------------
\* At first nothing is transmitted and nothing has happened.
LEMMA InitHand == Init => HandInv
  <1>. SUFFICES ASSUME Init PROVE HandInv
    OBVIOUS
  <1>1. /\ pc = [PE |-> "Startup", TX |-> "PHYReset", RX |-> "WaitPHY", HR |-> "ResetLayer"]
        /\ ev = [t \in Thread |-> {}]
        /\ txMail = <<>> /\ txMsg = NULL /\ intr = {} /\ status = {}
        /\ resetsLeft = MaxResets
    BY DEF Init
  <1>2. NoneSignalled /\ InHand
    BY <1>1 DEF NoneSignalled, InHand, AwaitsOutcome, TxWaits, Working, Thread, Prl
  <1>3. resetsLeft <= MaxResets
    BY <1>1, BoundAssumption
  <1>. QED
    BY <1>2, <1>3 DEF HandInv

\* Every step keeps the invariant.
LEMMA NextHand ==
    ASSUME TypeInv, BufferInv, HandInv, [Next]_vars
    PROVE  HandInv'
  <1>0. resetsLeft \in Nat /\ MaxResets \in Nat
    BY BoundAssumption DEF TypeInv, TypeOK, WorldOK
  <1>s. ASSUME resetsLeft' = resetsLeft,
               NoneSignalled /\ InHand => NoneSignalled' /\ InHand'
        PROVE  HandInv'
    BY <1>s DEF HandInv, Unreset
  <1>o. ASSUME Aside, resetsLeft' \in {resetsLeft, resetsLeft - 1},
               NoneSignalled /\ resetsLeft' = resetsLeft => NoneSignalled'
        PROVE  HandInv'
    <2>1. resetsLeft' <= MaxResets
      BY <1>o, <1>0 DEF HandInv
    <2>2. CASE Unreset'
      <3>1. resetsLeft' = resetsLeft /\ Unreset
        BY <2>2, <1>o, <1>0 DEF HandInv, Unreset
      <3>2. NoneSignalled' /\ InHand'
        BY <3>1, <1>o, AsideKeeps DEF HandInv
      <3>. QED
        BY <2>1, <3>2 DEF HandInv
    <2>. QED
      BY <2>1, <2>2 DEF HandInv
  <1>1. CASE PeNext
    <2>1. PeRaises
      BY <1>1, PeQuiet
    <2>2. resetsLeft' = resetsLeft /\ (NoneSignalled => NoneSignalled')
      BY <2>1 DEF PeRaises, NoneSignalled
    <2>. QED
      BY <1>1, <1>s, <2>2, PeHand
  <1>2. CASE PeTimer
    <2>1. resetsLeft' = resetsLeft
      BY <1>2, PeWorld
    <2>. QED
      BY <1>2, <1>s, <2>1, TimerHand
  <1>3. CASE TxNext
    <2>1. ASSUME NoneSignalled, InHand PROVE NoneSignalled'
      <3>1. "RESET" \notin ev'["PE"]
        BY <1>3, <2>1, TxHand DEF NoneSignalled, Outcomes
      <3>. QED
        BY <1>3, <2>1, <3>1, TxQuiet DEF NoneSignalled
    <2>2. resetsLeft' = resetsLeft
      BY <1>3, TxQuiet
    <2>. QED
      BY <1>3, <1>s, <2>1, <2>2, TxHand
  <1>4. CASE RxNext
    BY <1>4, <1>o, RxAside
  <1>5. CASE HrNext
    BY <1>5, <1>o, HrAside
  <1>6. CASE IntNNext \/ BusDone \/ Chip \/ Outside \/ UNCHANGED vars
    BY <1>6, <1>o, WorldAside
  <1>. QED
    BY <1>1, <1>2, <1>3, <1>4, <1>5, <1>6 DEF Next, Stack, Strike

\* Until the partner signals a Hard Reset, the TX thread never numbers or transmits a message
\* that the engine has freed, whatever the engine gives up, resets or renegotiates itself.
THEOREM KeepsMessageCorrect == Spec => []TxKeepsItsMessage
  <1>1. TypeInv /\ BufferInv /\ HandInv => TxKeepsItsMessage
    <2>. SUFFICES ASSUME BufferInv, HandInv, Unreset, pc["TX"] \in {"Construct", "AmsWait", "Send"}
                  PROVE  txMsg \notin pool
      BY DEF TxKeepsItsMessage
    <2>1. txMsg # NULL /\ txMsg = ToSend
      BY TxHas DEF HandInv, InHand, Working
    <2>2. txMsg \in Owned["sent"] \/ txMsg \in Owned["req"]
      BY <2>1, OwnersAre DEF ToSend
    <2>3. Owned["sent"] \cap Owned["pool"] = {} /\ Owned["req"] \cap Owned["pool"] = {}
      BY DEF BufferInv, Disjoint, Parties
    <2>. QED
      BY <2>2, <2>3, OwnersAre
  <1>. QED
    BY InitType, NextType, InitBuffers, NextBuffers, InitHand, NextHand, <1>1, PTL DEF Spec

\* What a step does to the place of a thread: it stays, or its own step takes it elsewhere.
LEMMA OnlyItsOwn ==
    ASSUME TypeInv, HandInv, [Next]_vars
    PROVE  /\ ~PeNext /\ ~PeTimer => pc'["PE"] = pc["PE"]
           /\ ~TxNext /\ ~PeTimer => pc'["TX"] = pc["TX"]
  <1>1. PeNext => pc'["TX"] = pc["TX"]
    BY PeQuiet DEF PeRaises
  <1>2. TxNext => pc'["PE"] = pc["PE"]
    BY TxQuiet
  <1>3. RxNext \/ HrNext \/ IntNNext \/ BusDone \/ Chip \/ Outside \/ UNCHANGED vars
        => pc'["PE"] = pc["PE"] /\ pc'["TX"] = pc["TX"]
    BY RxAside, HrAside, WorldAside DEF Aside
  <1>. QED
    BY <1>1, <1>2, <1>3 DEF Next, Stack, Strike

\* The engine only leaves the wait for a transmission when something has come.
LEMMA LeavesWoken ==
    ASSUME TypeInv, PeNext \/ PeTimer, pc["PE"] \in TxWaits, pc'["PE"] # pc["PE"]
    PROVE  Woken(pc["PE"])
  <1>. USE DEF At, Leave
  <1>1. CASE SelectCapSent \/ GetSourceCap \/ GiveSinkCap \/ SoftReset \/ SendSoftReset
             \/ SendNotSupported
    BY <1>1
    DEF SelectCapSent, GetSourceCap, GiveSinkCap, SoftReset, SendSoftReset, SendNotSupported,
        OnReset, Transmit, AfterTransmit, Woken, TxWaits
  <1>2. CASE \/ Startup \/ Discovery \/ EvalCap \/ NotSupportedReceived \/ SourceUnresponsive
             \/ PeAllocFails \/ SelectCap \/ HardReset \/ TransitionDefault
    BY <1>2 DEF Startup, Discovery, EvalCap, NotSupportedReceived, SourceUnresponsive, PeAllocFails,
                SelectCap, HardReset, TransitionDefault, TxWaits
  <1>3. CASE WaitCap \/ SelectCapReply \/ TransitionSink \/ ChunkReceived \/ HardResetSent \/ Ready
    BY <1>3 DEF WaitCap, SelectCapReply, TransitionSink, ChunkReceived, HardResetSent, Ready,
                ReadyStartAms, ReadyMessage, OnReset, Woken, TxWaits
  <1>4. CASE PeTimer
    BY <1>4 DEF PeTimer, NoCapabilities, NoReply, NoPsRdy, NoAccept, OnTimeout, RequestAgain,
                ChunkingNotSupported, TimedOut, PpsTimerFires, TxWaits
  <1>. QED
    BY <1>1, <1>2, <1>3, <1>4 DEF PeNext

\* When the engine gives a transmission up as failed, the TX thread is done with it, until the
\* partner signals a Hard Reset.
THEOREM FailureCorrect == Spec => FailureIsOurs
  <1>1. TypeInv /\ HandInv /\ [Next]_vars =>
            [Unreset /\ pc["PE"] \in TxWaits /\ pc'["PE"] \in {"HardReset", "SendSoftReset"}
                => txMsg = NULL /\ txMail = <<>> /\ "MSG_TX" \notin ev["TX"]]_vars
    <2>. SUFFICES ASSUME TypeInv, HandInv, [Next]_vars, Unreset, pc["PE"] \in TxWaits,
                         pc'["PE"] \in {"HardReset", "SendSoftReset"}
                  PROVE  txMsg = NULL /\ txMail = <<>> /\ "MSG_TX" \notin ev["TX"]
      OBVIOUS
    <2>1. pc'["PE"] # pc["PE"]
      BY DEF TxWaits
    <2>2. Woken(pc["PE"])
      BY <2>1, OnlyItsOwn, LeavesWoken
    <2>3. ev["PE"] \cap Outcomes # {}
      BY <2>2, EngineMasks DEF Woken, Pending, TxOutcome, Outcomes, HandInv, NoneSignalled
    <2>. QED
      BY <2>3 DEF HandInv, InHand, AwaitsOutcome
  <1>. QED
    BY InitType, NextType, InitBuffers, NextBuffers, InitHand, NextHand, <1>1, PTL
    DEF Spec, FailureIsOurs

\* The TX thread takes a message up when it is told that one has been posted.
LEMMA TakesWhenTold ==
    ASSUME TypeInv, TxNext, pc["TX"] = "WaitMessage", pc'["TX"] = "Construct"
    PROVE  "MSG_TX" \in ev["TX"]
  <1>g. ASSUME NEW s, pc' = [pc EXCEPT !["TX"] = s] PROVE pc'["TX"] = s
    BY <1>g DEF TypeInv, TypeOK, KernelOK, PcOK, Thread, Prl
  <1>1. WaitMessage
    BY DEF TxNext, PHYReset, ConstructMessage, AmsGranted, SendMessage, WaitResponse,
           MatchMessageID, TxRuns, Block
  <1>2. CASE GiveUp(Pending("TX"), Mask["WaitMessage"])
    <2>1. pc'["TX"] = "PHYReset"
      BY <1>2, <1>g DEF GiveUp, DiscardMessage, StartI2C
    <2>. QED
      BY <2>1
  <1>3. CASE Pending("TX") = {"MSG_TX"}
    BY <1>3 DEF Pending
  <1>. QED
    BY <1>1, <1>2, <1>3 DEF WaitMessage

\* Until the partner signals a Hard Reset, the TX thread takes up exactly the message the engine
\* waits for: never one that it was handed for a transmission given up before.
THEOREM SendsAskedCorrect == Spec => SendsWhatWasAsked
  <1>1. TypeInv /\ HandInv /\ [Next]_vars =>
            [Unreset /\ pc["TX"] = "WaitMessage" /\ pc'["TX"] = "Construct"
                => pc["PE"] \in TxWaits /\ txMail = <<ToSend>>]_vars
    <2>. SUFFICES ASSUME TypeInv, HandInv, [Next]_vars, Unreset, pc["TX"] = "WaitMessage",
                         pc'["TX"] = "Construct"
                  PROVE  pc["PE"] \in TxWaits /\ txMail = <<ToSend>>
      OBVIOUS
    <2>1. ~PeTimer
      <3>1. CASE PeTimer
        <4>1. pc'["TX"] = pc["TX"]
          BY <3>1 DEF PeTimer, NoCapabilities, NoReply, NoPsRdy, NoAccept, OnTimeout, RequestAgain,
                      ChunkingNotSupported, TimedOut, PpsTimerFires, Goto, TypeInv, TypeOK,
                      KernelOK, PcOK, Thread, Prl
        <4>. QED
          BY <4>1
      <3>. QED
        BY <3>1
    <2>2. "MSG_TX" \in ev["TX"]
      BY <2>1, OnlyItsOwn, TakesWhenTold
    <2>. QED
      BY <2>2 DEF HandInv, InHand, AwaitsOutcome
  <1>. QED
    BY InitType, NextType, InitBuffers, NextBuffers, InitHand, NextHand, <1>1, PTL
    DEF Spec, SendsWhatWasAsked

-----------------------------------------------------------------------------
(* How many buffers are out.                                               *)

\* A mailbox holds at most as many buffers as it has places.
LEMMA ElementsBounded ==
    ASSUME NEW s \in Seq(Buf)
    PROVE  IsFiniteSet(Elements(s)) /\ Cardinality(Elements(s)) <= Len(s)
  <1>1. Len(s) \in Nat /\ Len(s) \in Int /\ 1 \in Int
    OBVIOUS
  <1>2. IsFiniteSet(1..Len(s)) /\ Cardinality(1..Len(s)) = Len(s)
    <2>1. /\ IsFiniteSet(1..Len(s))
          /\ Cardinality(1..Len(s)) = IF 1 > Len(s) THEN 0 ELSE Len(s) - 1 + 1
      BY <1>1, FS_Interval, Zenon
    <2>. QED
      BY <1>1, <2>1
  <1>3. s \in Surjection(1..Len(s), Elements(s))
    BY DEF Surjection, Elements
  <1>. QED
    <2>1. IsFiniteSet(Elements(s)) /\ Cardinality(Elements(s)) <= Cardinality(1..Len(s))
      BY <1>2, <1>3, FS_Surjection
    <2>. QED
      BY <1>2, <2>1

\* A set that three others and two elements cover is no larger than they are together.
LEMMA Covered ==
    ASSUME NEW A, IsFiniteSet(A), NEW B, IsFiniteSet(B), NEW C, IsFiniteSet(C), NEW x, NEW y,
           NEW S, IsFiniteSet(S), S \subseteq ((A \cup B) \cup C) \cup {x, y}
    PROVE  Cardinality(S) <= Cardinality(A) + Cardinality(B) + Cardinality(C) + 2
  <1>1. IsFiniteSet(A \cup B) /\ Cardinality(A \cup B) <= Cardinality(A) + Cardinality(B)
    <2>1. IsFiniteSet(A \cap B)
      BY FS_Intersection
    <2>2. /\ Cardinality(A) \in Nat /\ Cardinality(B) \in Nat /\ Cardinality(A \cap B) \in Nat
          /\ IsFiniteSet(A \cup B)
          /\ Cardinality(A \cup B) = Cardinality(A) + Cardinality(B) - Cardinality(A \cap B)
      BY <2>1, FS_CardinalityType, FS_Union
    <2>. QED
      BY <2>2
  <1>2. /\ IsFiniteSet((A \cup B) \cup C)
        /\ Cardinality((A \cup B) \cup C) <= Cardinality(A \cup B) + Cardinality(C)
    <2>1. IsFiniteSet((A \cup B) \cap C)
      BY <1>1, FS_Intersection
    <2>2. /\ Cardinality(A \cup B) \in Nat /\ Cardinality(C) \in Nat
          /\ Cardinality((A \cup B) \cap C) \in Nat
          /\ IsFiniteSet((A \cup B) \cup C)
          /\ Cardinality((A \cup B) \cup C)
                 = Cardinality(A \cup B) + Cardinality(C) - Cardinality((A \cup B) \cap C)
      BY <1>1, <2>1, FS_CardinalityType, FS_Union
    <2>. QED
      BY <2>2
  <1>3. /\ IsFiniteSet(((A \cup B) \cup C) \cup {x, y})
        /\ Cardinality(((A \cup B) \cup C) \cup {x, y}) <= Cardinality((A \cup B) \cup C) + 2
    <2>. DEFINE D == (A \cup B) \cup C
    <2>1. IsFiniteSet(D)
      BY <1>2
    <2>. HIDE DEF D
    <2>2. Cardinality(D) \in Nat
      BY <2>1, FS_CardinalityType
    <2>3. /\ IsFiniteSet(D \cup {x})
          /\ Cardinality(D \cup {x}) \in {Cardinality(D), Cardinality(D) + 1}
      BY <2>1, FS_AddElement
    <2>4. /\ IsFiniteSet((D \cup {x}) \cup {y})
          /\ Cardinality((D \cup {x}) \cup {y})
                 \in {Cardinality(D \cup {x}), Cardinality(D \cup {x}) + 1}
      BY <2>3, FS_AddElement
    <2>5. D \cup {x, y} = (D \cup {x}) \cup {y}
      OBVIOUS
    <2>6. IsFiniteSet(D \cup {x, y}) /\ Cardinality(D \cup {x, y}) <= Cardinality(D) + 2
      BY <2>2, <2>3, <2>4, <2>5
    <2>. QED
      BY <2>6 DEF D
  <1>4. Cardinality(S) <= Cardinality(((A \cup B) \cup C) \cup {x, y})
    BY <1>3, FS_Subset
  <1>5. /\ Cardinality(A) \in Nat /\ Cardinality(B) \in Nat /\ Cardinality(C) \in Nat
        /\ Cardinality(S) \in Nat /\ Cardinality(A \cup B) \in Nat
        /\ Cardinality((A \cup B) \cup C) \in Nat
        /\ Cardinality(((A \cup B) \cup C) \cup {x, y}) \in Nat
    BY <1>1, <1>2, <1>3, FS_CardinalityType
  <1>. QED
    BY <1>1, <1>2, <1>3, <1>4, <1>5

\* At most two buffers, the Request and the message the engine works on or sends, are out at
\* any time, for any number of buffers: what else the pool lacks waits for the engine.
THEOREM BuffersCorrect == Spec => []FewBuffersOut
  <1>1. TypeInv /\ BufferInv => FewBuffersOut
    <2>. SUFFICES ASSUME TypeInv, BufferInv, DpmFrees
                  PROVE  Cardinality(pool) + Len(peMail) + (IF pc["RX"] = "WaitPHY" THEN 0 ELSE 1)
                            >= Cardinality(Buf) - 2
      BY DEF FewBuffersOut
    <2>. DEFINE rx == Owned["rx"]
                work == IF sent # NULL THEN sent ELSE peMsg
    <2>1. Buf \subseteq ((pool \cup Elements(peMail)) \cup rx) \cup {req, work}
      <3>1. Owned["msg"] \cup Owned["sent"] \subseteq {work}
        <4>1. pc["PE"] \in {"EvalCap", "Ready"} => sent = NULL
          BY DEF BufferInv, PlacesOK, Sending, TxWaits
        <4>. QED
          BY <4>1, OwnersAre
      <3>2. Owned["req"] \subseteq {req}
        BY OwnersAre
      <3>3. \A b \in Buf : \E i \in Parties : b \in Owned[i]
        BY DEF BufferInv, Complete
      <3>4. Owned["pool"] = pool /\ Owned["mail"] = Elements(peMail)
        BY OwnersAre
      <3>. QED
        BY <3>1, <3>2, <3>3, <3>4 DEF Parties
    <2>2. IsFiniteSet(Buf) /\ IsFiniteSet(pool)
      BY BufAssumption, FS_Subset DEF TypeInv, TypeOK, PoolOK
    <2>3. IsFiniteSet(Elements(peMail)) /\ Cardinality(Elements(peMail)) <= Len(peMail)
      BY ElementsBounded DEF TypeInv, TypeOK, PeOK
    <2>4. /\ IsFiniteSet(rx)
          /\ Cardinality(rx) = (IF pc["RX"] = "WaitPHY" THEN 0 ELSE 1)
      <3>1. CASE pc["RX"] = "WaitPHY"
        <4>1. rx = {}
          BY <3>1, OwnersAre
        <4>. QED
          BY <3>1, <4>1, FS_EmptySet
      <3>2. CASE pc["RX"] # "WaitPHY"
        <4>1. rx = {rxMsg}
          BY <3>2, OwnersAre
        <4>2. IsFiniteSet(rx) /\ Cardinality(rx) = 1
          <5>. HIDE DEF rx
          <5>. QED
            BY <4>1, FS_Singleton
        <4>. QED
          BY <3>2, <4>2
      <3>. QED
        BY <3>1, <3>2
    <2>. HIDE DEF rx, work
    <2>5. Cardinality(Buf)
             <= Cardinality(pool) + Cardinality(Elements(peMail)) + Cardinality(rx) + 2
      BY <2>1, <2>2, <2>3, <2>4, Covered
    <2>6. /\ Cardinality(Buf) \in Nat /\ Cardinality(pool) \in Nat /\ Cardinality(rx) \in Nat
          /\ Cardinality(Elements(peMail)) \in Nat /\ Len(peMail) \in Nat
      BY <2>2, <2>3, <2>4, FS_CardinalityType DEF TypeInv, TypeOK, PeOK
    <2>. QED
      BY <2>3, <2>4, <2>5, <2>6
  <1>. QED
    BY InitType, NextType, InitBuffers, NextBuffers, <1>1, PTL DEF Spec

-----------------------------------------------------------------------------
(* Whether the engine notices its messages.                                *)

\* What a step may do to the engine's mailbox and its flag: it puts nothing into an empty
\* mailbox without raising the flag, and only lowers the flag at a wait that takes it, where
\* it fetches a message if nothing else was pending.
Notices ==
    /\ peMail = <<>> => peMail' = <<>> \/ "MSG_RX" \in ev'["PE"]
    /\ "MSG_RX" \in ev["PE"] /\ "MSG_RX" \notin ev'["PE"] =>
           /\ "MSG_RX" \in Pending("PE")
           /\ Pending("PE") = {"MSG_RX"} /\ peMail # <<>> => peMail' = Tail(peMail)

\* Every step of the engine is such a step.
LEMMA PeNotices ==
    ASSUME TypeInv, PeNext
    PROVE  Notices
  <1>. USE DEF Leave
  <1>e. ev \in [Thread -> SUBSET Event]
    BY DEF TypeInv, TypeOK, KernelOK
  <1>u. ASSUME UNCHANGED peMail, "MSG_RX" \in ev["PE"] => "MSG_RX" \in ev'["PE"] PROVE Notices
    BY <1>u DEF Notices
  <1>v. ASSUME UNCHANGED <<ev, peMail>> PROVE Notices
    BY <1>v DEF Notices
  <1>s. ASSUME NEW s, Woken(s)
        PROVE  /\ pc["PE"] = s /\ ev'["PE"] = ev["PE"] \ Mask[s]
               /\ Pending("PE") = ev["PE"] \cap Mask[s]
    BY <1>s, <1>e DEF Woken, At, Pending, Thread, Prl
  <1>w. ASSUME NEW s, Woken(s), UNCHANGED peMail, Pending("PE") # {"MSG_RX"} PROVE Notices
    BY <1>w, <1>s DEF Notices
  <1>m. ASSUME NEW s, Woken(s), UNCHANGED peMail, "MSG_RX" \notin Mask[s] PROVE Notices
    BY <1>m, <1>s DEF Notices
  <1>g. ASSUME NEW s, Woken(s), peMail # <<>>, peMail' = Tail(peMail) PROVE Notices
    BY <1>g, <1>s DEF Notices
  <1>f. ASSUME NEW s, Woken(s), FetchAndFree PROVE Notices
    <2>1. CASE peMail = <<>>
      <3>1. peMail' = <<>>
        BY <1>f, <2>1 DEF FetchAndFree
      <3>. QED
        BY <1>f, <1>s, <2>1, <3>1 DEF Notices
    <2>2. CASE peMail # <<>>
      BY <1>f, <1>g, <2>2 DEF FetchAndFree
    <2>. QED
      BY <2>1, <2>2
  <1>r. ASSUME NEW s, OnReset(s) PROVE Notices
    BY <1>r, <1>w DEF OnReset, Got
  <1>o. \A s \in TxWaits \cup {"HardReset.sent"} : "MSG_RX" \notin Mask[s]
    BY EngineMasks DEF TxOutcome
  <1>x. {"SelectCap.tx", "GetSourceCap.tx", "GiveSinkCap.tx", "SoftReset.tx", "SendSoftReset.tx",
         "SendNotSupported.tx"} \subseteq TxWaits
    BY DEF TxWaits
  <1>b. ASSUME NEW b, Submit(b), UNCHANGED peMail PROVE Notices
    <2>1. ev'["PE"] = ev["PE"]
      BY <1>b, <1>e DEF Submit, Thread, Prl
    <2>. QED
      BY <1>b, <2>1, <1>u
  <1>t. ASSUME NEW s, NEW type, NEW wait, Transmit(s, type, wait) PROVE Notices
    BY <1>t, <1>b DEF Transmit
  <1>a. ASSUME NEW s \in TxWaits, NEW done, NEW failed, AfterTransmit(s, done, failed) PROVE Notices
    BY <1>a, <1>o, <1>m DEF AfterTransmit
  <1>h. ASSUME NEW e, SignalHr(e), UNCHANGED peMail PROVE Notices
    <2>1. ev'["PE"] = ev["PE"]
      BY <1>h, <1>e DEF SignalHr, Thread, Prl
    <2>. QED
      BY <1>h, <2>1, <1>u
  <1>1. CASE Startup \/ Discovery \/ EvalCap \/ NotSupportedReceived \/ SourceUnresponsive
             \/ PeAllocFails
    BY <1>1, <1>v
    DEF Startup, Discovery, EvalCap, NotSupportedReceived, SourceUnresponsive, PeAllocFails
  <1>2. CASE WaitCap
    <2>1. CASE OnReset("WaitCap")
      BY <2>1, <1>r
    <2>2. CASE Woken("WaitCap") /\ Got("I_OVRTEMP") /\ Leave
      BY <2>2, <1>w DEF Got
    <2>3. CASE Woken("WaitCap") /\ Received # "none" /\ peMail' = Tail(peMail)
      BY <2>3, <1>g DEF Received
    <2>4. CASE Woken("WaitCap") /\ FetchAndFree
      BY <2>4, <1>f
    <2>. QED
      BY <1>2, <2>1, <2>2, <2>3, <2>4 DEF WaitCap
  <1>3. CASE SelectCap \/ SelectCapSent \/ HardResetSent \/ ChunkReceived
    BY <1>3, <1>b, <1>r, <1>o, <1>x, <1>m DEF SelectCap, SelectCapSent, HardResetSent, ChunkReceived
  <1>4. CASE SelectCapReply
    BY <1>4, <1>r, <1>f DEF SelectCapReply
  <1>5. CASE TransitionSink
    BY <1>5, <1>r, <1>f DEF TransitionSink
  <1>6. CASE Ready
    <2>1. CASE ReadyStartAms
      <3>1. /\ ev'["PE"] = ev["PE"] \ Mask["Ready"] /\ pc["PE"] = "Ready"
            /\ UNCHANGED peMail
            /\ Pending("PE") # {"MSG_RX"}
        BY <2>1, <1>e DEF ReadyStartAms, SignalTx, At, Got, Thread, Prl
      <3>. QED
        BY <3>1 DEF Notices, Pending
    <2>2. CASE ReadyMessage
      <3>1. CASE Received \in {"SourceCaps", "SourceCapsPps"}
        <4>1. peMail # <<>>
          BY <3>1 DEF Received
        <4>. QED
          BY <2>2, <3>1, <4>1, <1>g DEF ReadyMessage
      <3>2. CASE Received \notin {"SourceCaps", "SourceCapsPps"}
        BY <2>2, <3>2, <1>f DEF ReadyMessage
      <3>. QED
        BY <3>1, <3>2
    <2>3. CASE Woken("Ready") /\ Got("I_OVRTEMP") /\ Leave
      BY <2>3, <1>w DEF Got
    <2>. QED
      BY <1>6, <2>1, <2>2, <2>3, <1>r DEF Ready
  <1>7. CASE GetSourceCap \/ GiveSinkCap \/ SoftReset \/ SendNotSupported
    BY <1>7, <1>x, <1>t, <1>a DEF GetSourceCap, GiveSinkCap, SoftReset, SendNotSupported
  <1>8. CASE SendSoftReset
    BY <1>8, <1>x, <1>t, <1>a, <1>r, <1>f DEF SendSoftReset
  <1>9. CASE HardReset
    BY <1>9, <1>v, <1>h DEF HardReset
  <1>10. CASE TransitionDefault
    BY <1>10, <1>h DEF TransitionDefault
  <1>. QED
    BY <1>1, <1>2, <1>3, <1>4, <1>5, <1>6, <1>7, <1>8, <1>9, <1>10 DEF PeNext

\* Nobody else fetches the engine's messages or lowers its flags, and RX raises MSG_RX with
\* each message it posts.
LEMMA OthersNotice ==
    ASSUME TypeInv, [Next]_vars, ~PeNext
    PROVE  Notices
  <1>. USE DEF RxFrame, TxFrame, HrFrame
  <1>e. ev \in [Thread -> SUBSET Event]
    BY DEF TypeInv, TypeOK, KernelOK
  <1>u. ASSUME UNCHANGED peMail, ev["PE"] \subseteq ev'["PE"] PROVE Notices
    BY <1>u DEF Notices
  <1>1. CASE PeTimer
    <2>1. UNCHANGED peMail
      BY <1>1 DEF PeTimer, NoCapabilities, NoReply, NoPsRdy, NoAccept, OnTimeout, RequestAgain,
                  ChunkingNotSupported, TimedOut, PpsTimerFires, Leave
    <2>2. ev["PE"] \subseteq ev'["PE"]
      BY <1>1, <1>e
      DEF PeTimer, NoCapabilities, NoReply, NoPsRdy, NoAccept, OnTimeout, RequestAgain,
          ChunkingNotSupported, TimedOut, PpsTimerFires
    <2>. QED
      BY <2>1, <2>2, <1>u
  <1>2. CASE TxNext
    <2>1. UNCHANGED peMail
      BY <1>2 DEF TxNext, PHYReset, WaitMessage, ConstructMessage, AmsGranted, SendMessage,
                  WaitResponse, MatchMessageID, Block, GiveUp
    <2>2. ev["PE"] \subseteq ev'["PE"]
      BY <1>2, <1>e
      DEF TxNext, PHYReset, WaitMessage, ConstructMessage, AmsGranted, SendMessage,
          WaitResponse, MatchMessageID, Block, GiveUp, TxClear, Report, Thread, Prl
    <2>. QED
      BY <2>1, <2>2, <1>u
  <1>3. CASE RxNext
    <2>1. CASE RxStoreMessageID
      <3>1. "MSG_RX" \in ev'["PE"]
        BY <2>1, <1>e DEF RxStoreMessageID, Thread, Prl
      <3>. QED
        BY <3>1 DEF Notices
    <2>2. CASE ~RxStoreMessageID
      <3>1. UNCHANGED peMail
        BY <1>3, <2>2 DEF RxNext, RxWaitPHY, RxAllocFails, RxRead, RxReset, RxCheckMessageID,
                          Block, RxDrop
      <3>2. ev'["PE"] = ev["PE"]
        BY <1>3, <2>2, <1>e
        DEF RxNext, RxWaitPHY, RxAllocFails, RxRead, RxReset, RxCheckMessageID,
            Block, RxDrop, TellTxAndYield, Thread, Prl
      <3>. QED
        BY <3>1, <3>2, <1>u
    <2>. QED
      BY <2>1, <2>2
  <1>4. CASE HrNext
    <2>1. UNCHANGED peMail
      BY <1>4 DEF HrNext, HrResetLayer, HrResetTx, HrIndicate, HrRequest, HrRequested,
                  HrWaitPHY, HrHardResetRequested, HrWaitPE, Block
    <2>2. ev["PE"] \subseteq ev'["PE"]
      BY <1>4, <1>e
      DEF HrNext, HrResetLayer, HrResetTx, HrIndicate, HrRequest, HrRequested,
          HrWaitPHY, HrHardResetRequested, HrWaitPE, Block, Thread, Prl
    <2>. QED
      BY <2>1, <2>2, <1>u
  <1>5. CASE IntNNext \/ BusDone \/ Chip \/ Outside \/ UNCHANGED vars
    <2>1. UNCHANGED peMail
      BY <1>5 DEF IntNNext, IntNPoll, IntNTell, BusDone, Chip, Outside, TransmitSucceeds,
                  TransmitFails, HardResetSignalled, PartnerSends, PartnerRepeats,
                  PartnerHardResets, OverTemp, UserSignals, SoftwareStays
    <2>2. \/ ev' = ev
          \/ \E t \in Thread : \E F : ev' = [ev EXCEPT ![t] = @ \cup F]
      BY <1>5 DEF IntNNext, IntNPoll, IntNTell, BusDone, Chip, Outside, TransmitSucceeds,
                  TransmitFails, HardResetSignalled, PartnerSends, PartnerRepeats,
                  PartnerHardResets, OverTemp, UserSignals, Thread, Prl
    <2>3. ev["PE"] \subseteq ev'["PE"]
      BY <2>2, <1>e DEF Thread, Prl
    <2>. QED
      BY <2>1, <2>3, <1>u
  <1>. QED
    BY <1>1, <1>2, <1>3, <1>4, <1>5 DEF Next, Stack, Strike

\* A message only becomes unnoticed at a wait that took MSG_RX, and there only if a second
\* message shared that flag or another event was taken in its stead: no other interleaving
\* of the threads loses the engine's notice of a message.
THEOREM NoticedCorrect == Spec => MessagesNoticed
  <1>1. TypeInv /\ [Next]_vars =>
            [~Unnoticed /\ Unnoticed' => /\ "MSG_RX" \in Pending("PE")
                                         /\ Len(peMail) >= 2 \/ Pending("PE") # {"MSG_RX"}]_vars
    <2>. SUFFICES ASSUME TypeInv, [Next]_vars, ~Unnoticed, Unnoticed'
                  PROVE  /\ "MSG_RX" \in Pending("PE")
                         /\ Len(peMail) >= 2 \/ Pending("PE") # {"MSG_RX"}
      OBVIOUS
    <2>1. Notices
      BY PeNotices, OthersNotice
    <2>2. peMail' # <<>> /\ "MSG_RX" \notin ev'["PE"] /\ peMail # <<>> /\ "MSG_RX" \in ev["PE"]
      BY <2>1 DEF Unnoticed, Notices
    <2>3. "MSG_RX" \in Pending("PE")
      BY <2>1, <2>2 DEF Notices
    <2>4. CASE Pending("PE") = {"MSG_RX"}
      <3>1. peMail' = Tail(peMail)
        BY <2>1, <2>2, <2>4 DEF Notices
      <3>2. peMail \in Seq(Buf)
        BY DEF TypeInv, TypeOK, PeOK
      <3>3. Len(peMail) >= 2
        BY <2>2, <3>1, <3>2
      <3>. QED
        BY <2>3, <3>3
    <2>. QED
      BY <2>3, <2>4
  <1>. QED
    BY InitType, NextType, <1>1, PTL DEF Spec, MessagesNoticed

=============================================================================
