------------------------- MODULE ServerAdmissionProofs -------------------------
(***************************************************************************)
(* Proofs about ServerAdmission for every set of connection and request    *)
(* slots, every assignment of sources and every limit.  A connection or a  *)
(* request that changes its state moves between the sets that the counters *)
(* and semaphores count; the counting lemmas say by how much each set      *)
(* changes, and each action is then a matter of which sets its states are  *)
(* in.                                                                     *)
(***************************************************************************)
EXTENDS ServerAdmission, FiniteSetTheorems, TLAPS

One(b) == IF b THEN 1 ELSE 0

Counted == ConnStates \ {"none", "leave_source"}
SourceCounted == ConnStates \ {"none", "entering"}

\* The caps, as the compare-exchange and the section under the mutex keep them.
CountsBounded ==
    /\ global_count <= AtLeastOne(global_limit)
    /\ \A a \in Sources : source_counts[a] <= AtLeastOne(per_source_limit)

\* Only the accept loop brings connections in, and it is over before shutdown aborts
\* what is there.
AcceptedOnly ==
    /\ serving # "accepting" => InConn({"entering", "entered"}) = {}
    /\ serving = "stopped" => \A c \in Conns : conn[c] = "none"

IInv ==
    /\ AdmissionTypeOK
    /\ ConnectionsCounted /\ CountsBounded
    /\ PermitsExact
    /\ NoOrphanStream /\ AcceptedOnly

-----------------------------------------------------------------------------
\* Counting

\* One element that is put into a set or taken out of it changes its size by one.
LEMMA MoveCount ==
    ASSUME NEW A, NEW B, NEW c, IsFiniteSet(A), IsFiniteSet(B), A \ {c} = B \ {c}
    PROVE  /\ Cardinality(A) \in Nat /\ Cardinality(B) \in Nat
           /\ Cardinality(B) + One(c \in A) = Cardinality(A) + One(c \in B)
<1>1. Cardinality(A) \in Nat /\ Cardinality(B) \in Nat
    BY FS_CardinalityType
<1>2. Cardinality(A \ {c}) = Cardinality(A) - One(c \in A)
    BY <1>1, FS_RemoveElement DEF One
<1>3. Cardinality(B \ {c}) = Cardinality(B) - One(c \in B)
    BY <1>1, FS_RemoveElement DEF One
<1>. QED BY <1>1, <1>2, <1>3 DEF One

\* The sets that are counted are finite.
LEMMA CountedFinite ==
    ASSUME NEW P
    PROVE  /\ IsFiniteSet(InConn(P)) /\ Cardinality(InConn(P)) \in Nat
           /\ IsFiniteSet(InStream(P)) /\ Cardinality(InStream(P)) \in Nat
           /\ \A a \in Sources : IsFiniteSet(OfSource(a, P)) /\ Cardinality(OfSource(a, P)) \in Nat
<1>1. InConn(P) \subseteq Conns /\ InStream(P) \subseteq Streams
    BY DEF InConn, InStream
<1>2. \A a \in Sources : OfSource(a, P) \subseteq Conns
    BY <1>1 DEF OfSource
<1>. QED BY <1>1, <1>2, AdmissionAssumption, FS_Subset, FS_CardinalityType

\* A connection goes from one state to another.
LEMMA ConnMoves ==
    ASSUME AdmissionTypeOK, NEW c \in Conns, NEW v, ConnTo(c, v), NEW P
    PROVE  /\ Cardinality(InConn(P)) \in Nat /\ Cardinality(InConn(P))' \in Nat
           /\ Cardinality(InConn(P))' + One(conn[c] \in P) = Cardinality(InConn(P)) + One(v \in P)
<1>1. conn'[c] = v /\ \A d \in Conns \ {c} : conn'[d] = conn[d]
    BY DEF ConnTo, AdmissionTypeOK
<1>2. InConn(P) \ {c} = InConn(P)' \ {c}
    BY <1>1 DEF InConn
<1>3. (c \in InConn(P) <=> conn[c] \in P) /\ (c \in InConn(P)' <=> v \in P)
    BY <1>1 DEF InConn
<1>4. IsFiniteSet(InConn(P)) /\ IsFiniteSet(InConn(P)')
    BY AdmissionAssumption, FS_Subset DEF InConn
<1>5. /\ Cardinality(InConn(P)) \in Nat /\ Cardinality(InConn(P)') \in Nat
      /\ Cardinality(InConn(P)') + One(c \in InConn(P)) = Cardinality(InConn(P)) + One(c \in InConn(P)')
    BY <1>2, <1>4, MoveCount
<1>. QED BY <1>3, <1>5 DEF One

\* The same for the connections of one source.
LEMMA SourceMoves ==
    ASSUME AdmissionTypeOK, NEW c \in Conns, NEW v, ConnTo(c, v), NEW P, NEW a \in Sources
    PROVE  /\ Cardinality(OfSource(a, P)) \in Nat /\ Cardinality(OfSource(a, P))' \in Nat
           /\ a # source[c] => Cardinality(OfSource(a, P))' = Cardinality(OfSource(a, P))
           /\ a = source[c] => Cardinality(OfSource(a, P))' + One(conn[c] \in P)
                                   = Cardinality(OfSource(a, P)) + One(v \in P)
<1>1. conn'[c] = v /\ \A d \in Conns \ {c} : conn'[d] = conn[d]
    BY DEF ConnTo, AdmissionTypeOK
<1>2. OfSource(a, P) \ {c} = OfSource(a, P)' \ {c}
    BY <1>1 DEF OfSource, InConn
<1>3. IsFiniteSet(OfSource(a, P)) /\ IsFiniteSet(OfSource(a, P)')
    BY AdmissionAssumption, FS_Subset DEF OfSource, InConn
<1>4. /\ Cardinality(OfSource(a, P)) \in Nat /\ Cardinality(OfSource(a, P)') \in Nat
      /\ Cardinality(OfSource(a, P)') + One(c \in OfSource(a, P))
            = Cardinality(OfSource(a, P)) + One(c \in OfSource(a, P)')
    BY <1>2, <1>3, MoveCount
<1>5. CASE a # source[c]
    <2>1. OfSource(a, P) = OfSource(a, P)'
        BY <1>1, <1>5 DEF OfSource, InConn
    <2>. QED BY <1>4, <1>5, <2>1
<1>6. CASE a = source[c]
    <2>1. (c \in OfSource(a, P) <=> conn[c] \in P) /\ (c \in OfSource(a, P)' <=> v \in P)
        BY <1>1, <1>6 DEF OfSource, InConn
    <2>. QED BY <1>4, <1>6, <2>1 DEF One
<1>. QED BY <1>5, <1>6

\* A request goes from one state to another.
LEMMA StreamMoves ==
    ASSUME AdmissionTypeOK, NEW s \in Streams, NEW v, StreamTo(s, v), NEW P
    PROVE  /\ Cardinality(InStream(P)) \in Nat /\ Cardinality(InStream(P))' \in Nat
           /\ Cardinality(InStream(P))' + One(stream[s] \in P) = Cardinality(InStream(P)) + One(v \in P)
<1>1. stream'[s] = v /\ \A d \in Streams \ {s} : stream'[d] = stream[d]
    BY DEF StreamTo, AdmissionTypeOK
<1>2. InStream(P) \ {s} = InStream(P)' \ {s}
    BY <1>1 DEF InStream
<1>3. (s \in InStream(P) <=> stream[s] \in P) /\ (s \in InStream(P)' <=> v \in P)
    BY <1>1 DEF InStream
<1>4. IsFiniteSet(InStream(P)) /\ IsFiniteSet(InStream(P)')
    BY AdmissionAssumption, FS_Subset DEF InStream
<1>5. /\ Cardinality(InStream(P)) \in Nat /\ Cardinality(InStream(P)') \in Nat
      /\ Cardinality(InStream(P)') + One(s \in InStream(P)) = Cardinality(InStream(P)) + One(s \in InStream(P)')
    BY <1>2, <1>4, MoveCount
<1>. QED BY <1>3, <1>5 DEF One
\* The limits are numbers.
LEMMA LimitTypes ==
    /\ AtLeastOne(global_limit) \in Nat /\ AtLeastOne(per_source_limit) \in Nat
    /\ AtLeastOne(max_concurrent_flows) \in Nat
    /\ pre_auth_max_concurrent \in Nat /\ fallback_max_concurrent \in Nat
    /\ max_auth_failures_per_window \in Nat /\ auth_failure_cache_max_entries \in Nat
BY AdmissionAssumption DEF AtLeastOne

-----------------------------------------------------------------------------
\* ConnectionLimitTracker

Limits == ConnectionsCounted /\ CountsBounded

\* The limits in terms of the two sets that are counted.
LEMMA LimitsMean ==
    /\ ConnectionsCounted <=>
          /\ global_count = Cardinality(InConn(Counted))
          /\ \A a \in Sources : source_counts[a] = Cardinality(OfSource(a, SourceCounted))
    /\ ConnectionsCounted' <=>
          /\ global_count' = Cardinality(InConn(Counted))'
          /\ \A a \in Sources : source_counts'[a] = Cardinality(OfSource(a, SourceCounted))'
BY DEF ConnectionsCounted, Counted, SourceCounted

\* A step that moves no connection leaves the limits alone.
LEMMA LimitsUnchanged ==
    ASSUME Limits, UNCHANGED <<conn, limits>>
    PROVE  Limits'
<1>1. \A P : InConn(P)' = InConn(P)
    BY DEF InConn
<1>2. \A a, P : OfSource(a, P)' = OfSource(a, P)
    BY DEF OfSource, InConn
<1>. QED BY <1>1, <1>2, LimitsMean DEF Limits, CountsBounded, limits

\* A connection moves between two states that are counted alike.
LEMMA LimitsKept ==
    ASSUME AdmissionTypeOK, Limits, NEW c \in Conns, NEW v, ConnTo(c, v), UNCHANGED limits,
           conn[c] \in Counted <=> v \in Counted,
           conn[c] \in SourceCounted <=> v \in SourceCounted
    PROVE  Limits'
<1>1. Cardinality(InConn(Counted))' = Cardinality(InConn(Counted))
    BY ConnMoves DEF One
<1>2. ASSUME NEW a \in Sources
      PROVE  Cardinality(OfSource(a, SourceCounted))' = Cardinality(OfSource(a, SourceCounted))
    BY SourceMoves DEF One
<1>. QED BY <1>1, <1>2, LimitsMean DEF Limits, CountsBounded, limits

\* The states of a connection that has passed try_connection_limit.
LEMMA GuardedCounted ==
    /\ Guarded \cup {"leave_global"} \subseteq Counted /\ Guarded \cup {"leave_global"} \subseteq SourceCounted
    /\ "none" \notin Counted /\ "none" \notin SourceCounted
    /\ "entering" \in Counted /\ "entering" \notin SourceCounted
    /\ "leave_source" \notin Counted /\ "leave_source" \in SourceCounted
    /\ "entered" \in Guarded
BY DEF Guarded, Counted, SourceCounted, ConnStates

\* The compare-exchange of try_enter_global takes one place below the limit.
LEMMA LimitsAccept ==
    ASSUME AdmissionTypeOK, Limits, NEW c \in Conns, Accept(c)
    PROVE  Limits' /\ global_count' \in Nat /\ source_counts' = source_counts
<1>1. /\ ConnTo(c, "entering") /\ conn[c] = "none" /\ global_count' = global_count + 1
      /\ global_count < AtLeastOne(global_limit) /\ source_counts' = source_counts
    BY DEF Accept
<1>2. Cardinality(InConn(Counted))' = Cardinality(InConn(Counted)) + 1
    BY <1>1, ConnMoves, GuardedCounted DEF One
<1>3. ASSUME NEW a \in Sources
      PROVE  Cardinality(OfSource(a, SourceCounted))' = Cardinality(OfSource(a, SourceCounted))
    BY <1>1, SourceMoves, GuardedCounted DEF One
<1>4. global_count' <= AtLeastOne(global_limit) /\ global_count' \in Nat
    BY <1>1, LimitTypes DEF AdmissionTypeOK
<1>. QED BY <1>1, <1>2, <1>3, <1>4, LimitsMean DEF Limits, CountsBounded

\* try_enter: a refusal takes back the place in the global count.
LEMMA LimitsEnter ==
    ASSUME AdmissionTypeOK, Limits, NEW c \in Conns, EnterSource(c)
    PROVE  Limits' /\ global_count' \in Nat /\ source_counts' \in [Sources -> Nat]
<1>0. source[c] \in Sources /\ global_count \in Nat /\ source_counts \in [Sources -> Nat]
    BY AdmissionAssumption DEF AdmissionTypeOK
<1>1. CASE /\ global_count' = global_count - 1 /\ ConnTo(c, "none") /\ UNCHANGED source_counts
    <2>1. Cardinality(InConn(Counted))' + 1 = Cardinality(InConn(Counted))
        BY <1>1, ConnMoves, GuardedCounted DEF One, EnterSource
    <2>2. ASSUME NEW a \in Sources
          PROVE  Cardinality(OfSource(a, SourceCounted))' = Cardinality(OfSource(a, SourceCounted))
        BY <1>1, SourceMoves, GuardedCounted DEF One, EnterSource
    <2>3. global_count' = Cardinality(InConn(Counted))' /\ global_count' \in Nat
        BY <1>0, <1>1, <2>1, LimitsMean, ConnMoves DEF Limits
    <2>4. global_count' <= AtLeastOne(global_limit)
        BY <1>0, <1>1, LimitTypes DEF Limits, CountsBounded
    <2>. QED BY <1>0, <1>1, <2>2, <2>3, <2>4, LimitsMean DEF Limits, CountsBounded
<1>2. CASE /\ source_counts[source[c]] < AtLeastOne(per_source_limit)
           /\ source_counts' = [source_counts EXCEPT ![source[c]] = @ + 1]
           /\ ConnTo(c, "entered") /\ UNCHANGED global_count
    <2>1. Cardinality(InConn(Counted))' = Cardinality(InConn(Counted))
        BY <1>2, ConnMoves, GuardedCounted DEF One, EnterSource
    <2>2. ASSUME NEW a \in Sources
          PROVE  source_counts'[a] = Cardinality(OfSource(a, SourceCounted))'
        <3>1. CASE a # source[c]
            BY <1>0, <1>2, <3>1, SourceMoves, LimitsMean DEF Limits
        <3>2. CASE a = source[c]
            BY <1>0, <1>2, <3>2, SourceMoves, GuardedCounted, LimitsMean DEF One, EnterSource, Limits
        <3>. QED BY <3>1, <3>2
    <2>3. \A a \in Sources : source_counts'[a] <= AtLeastOne(per_source_limit)
        BY <1>0, <1>2, LimitTypes DEF Limits, CountsBounded
    <2>. QED BY <1>0, <1>2, <2>1, <2>2, <2>3, LimitsMean DEF Limits, CountsBounded
<1>. QED BY <1>0, <1>1, <1>2, LimitTypes DEF EnterSource

\* The two halves of ConnectionLimitTracker::leave.
LEMMA LimitsLeave ==
    ASSUME AdmissionTypeOK, Limits, NEW c \in Conns, LeaveGlobal(c) \/ LeaveSource(c)
    PROVE  Limits' /\ global_count' \in Nat /\ source_counts' \in [Sources -> Nat]
<1>0. source[c] \in Sources /\ global_count \in Nat /\ source_counts \in [Sources -> Nat]
    BY AdmissionAssumption DEF AdmissionTypeOK
<1>1. CASE LeaveGlobal(c)
    <2>0. /\ ConnTo(c, "leave_source") /\ conn[c] = "leave_global" /\ global_count' = global_count - 1
          /\ source_counts' = source_counts
        BY <1>1 DEF LeaveGlobal
    <2>1. Cardinality(InConn(Counted))' + 1 = Cardinality(InConn(Counted))
        BY <2>0, ConnMoves, GuardedCounted DEF One
    <2>2. ASSUME NEW a \in Sources
          PROVE  Cardinality(OfSource(a, SourceCounted))' = Cardinality(OfSource(a, SourceCounted))
        BY <2>0, SourceMoves, GuardedCounted DEF One
    <2>3. global_count' = Cardinality(InConn(Counted))' /\ global_count' \in Nat
        BY <1>0, <2>0, <2>1, LimitsMean, ConnMoves DEF Limits
    <2>4. global_count' <= AtLeastOne(global_limit)
        BY <1>0, <2>0, LimitTypes DEF Limits, CountsBounded
    <2>. QED BY <1>0, <2>0, <2>2, <2>3, <2>4, LimitsMean DEF Limits, CountsBounded
<1>2. CASE LeaveSource(c)
    <2>0. /\ ConnTo(c, "none") /\ conn[c] = "leave_source" /\ global_count' = global_count
          /\ source_counts' = [source_counts EXCEPT ![source[c]] = @ - 1]
        BY <1>2 DEF LeaveSource
    <2>1. Cardinality(InConn(Counted))' = Cardinality(InConn(Counted))
        BY <2>0, ConnMoves, GuardedCounted DEF One
    <2>2. ASSUME NEW a \in Sources
          PROVE  source_counts'[a] = Cardinality(OfSource(a, SourceCounted))' /\ source_counts'[a] \in Nat
        <3>1. CASE a # source[c]
            BY <1>0, <2>0, <3>1, SourceMoves, LimitsMean DEF Limits
        <3>2. CASE a = source[c]
            BY <1>0, <2>0, <3>2, SourceMoves, GuardedCounted, LimitsMean DEF One, Limits
        <3>. QED BY <3>1, <3>2
    <2>3. \A a \in Sources : source_counts'[a] <= AtLeastOne(per_source_limit)
        BY <1>0, <2>0, LimitTypes DEF Limits, CountsBounded
    <2>4. source_counts' \in [Sources -> Nat]
        BY <1>0, <2>0, <2>2
    <2>. QED BY <1>0, <2>0, <2>1, <2>2, <2>3, <2>4, LimitsMean DEF Limits, CountsBounded
<1>. QED BY <1>1, <1>2

-----------------------------------------------------------------------------
\* The three semaphores

PermitTypes ==
    /\ pre_auth_admission \in 0..pre_auth_max_concurrent
    /\ fallback_admission \in 0..fallback_max_concurrent
    /\ flow_limit \in 0..AtLeastOne(max_concurrent_flows)

\* Exact permits that are not negative are within their limits.
LEMMA PermitsInRange ==
    ASSUME PermitsExact', pre_auth_admission' \in Nat, fallback_admission' \in Nat, flow_limit' \in Nat
    PROVE  PermitTypes'
<1>1. \A P : IsFiniteSet(InConn(P)') /\ IsFiniteSet(InStream(P)')
    BY AdmissionAssumption, FS_Subset DEF InConn, InStream
<1>2. \A P : Cardinality(InConn(P)') \in Nat /\ Cardinality(InStream(P)') \in Nat
    BY <1>1, FS_CardinalityType
<1>3. pre_auth_admission' \in 0..pre_auth_max_concurrent
    <2>1. Cardinality(InConn(ConnPreAuth)') \in Nat /\ Cardinality(InStream(StreamPreAuth)') \in Nat
        BY <1>2
    <2>. QED BY <2>1, LimitTypes DEF PermitsExact
<1>4. fallback_admission' \in 0..fallback_max_concurrent
    <2>1. Cardinality(InConn({"inline_fallback"})') \in Nat /\ Cardinality(InStream({"fallback"})') \in Nat
        BY <1>2
    <2>. QED BY <2>1, LimitTypes DEF PermitsExact
<1>5. flow_limit' \in 0..AtLeastOne(max_concurrent_flows)
    <2>1. Cardinality(InConn({"ws_flow"})') \in Nat /\ Cardinality(InStream({"flow"})') \in Nat
        BY <1>2
    <2>. QED BY <2>1, LimitTypes DEF PermitsExact
<1>. QED BY <1>3, <1>4, <1>5 DEF PermitTypes

\* A step that moves no task and no permit leaves the semaphores exact.
LEMMA PermitsUnchanged ==
    ASSUME AdmissionTypeOK, PermitsExact, UNCHANGED <<conn, stream, permits>>
    PROVE  PermitsExact' /\ PermitTypes'
<1>1. \A P : InConn(P)' = InConn(P) /\ InStream(P)' = InStream(P)
    BY DEF InConn, InStream
<1>. QED BY <1>1 DEF PermitsExact, PermitTypes, AdmissionTypeOK, permits

\* A connection takes or returns exactly the permits that tell its two states apart.
LEMMA ConnPermits ==
    ASSUME AdmissionTypeOK, PermitsExact, NEW c \in Conns, NEW v, ConnTo(c, v), UNCHANGED stream,
           pre_auth_admission' \in Nat, fallback_admission' \in Nat, flow_limit' \in Nat,
           pre_auth_admission' + One(v \in ConnPreAuth) = pre_auth_admission + One(conn[c] \in ConnPreAuth),
           fallback_admission' + One(v \in {"inline_fallback"})
               = fallback_admission + One(conn[c] \in {"inline_fallback"}),
           flow_limit' + One(v \in {"ws_flow"}) = flow_limit + One(conn[c] \in {"ws_flow"})
    PROVE  PermitsExact' /\ PermitTypes'
<1>1. \A P : InStream(P)' = InStream(P)
    BY DEF InStream
<1>2. \A P : Cardinality(InStream(P)) \in Nat
    BY CountedFinite
<1>3. pre_auth_admission \in Int /\ fallback_admission \in Int /\ flow_limit \in Int
    BY LimitTypes DEF AdmissionTypeOK
<1>4. \A b : One(b) \in {0, 1}
    BY DEF One
<1>5. pre_auth_admission' + Cardinality(InConn(ConnPreAuth))' + Cardinality(InStream(StreamPreAuth))'
          = pre_auth_max_concurrent
    <2>1. /\ Cardinality(InConn(ConnPreAuth)) \in Nat /\ Cardinality(InConn(ConnPreAuth))' \in Nat
          /\ Cardinality(InConn(ConnPreAuth))' + One(conn[c] \in ConnPreAuth)
                = Cardinality(InConn(ConnPreAuth)) + One(v \in ConnPreAuth)
        BY ConnMoves
    <2>2. Cardinality(InStream(StreamPreAuth))' = Cardinality(InStream(StreamPreAuth))
        BY <1>1
    <2>3. /\ One(conn[c] \in ConnPreAuth) \in Int /\ One(v \in ConnPreAuth) \in Int
          /\ Cardinality(InStream(StreamPreAuth)) \in Nat
        BY <1>2, <1>4
    <2>. QED BY <1>3, <2>1, <2>2, <2>3 DEF PermitsExact
<1>6. fallback_admission' + Cardinality(InConn({"inline_fallback"}))' + Cardinality(InStream({"fallback"}))'
          = fallback_max_concurrent
    <2>1. /\ Cardinality(InConn({"inline_fallback"})) \in Nat /\ Cardinality(InConn({"inline_fallback"}))' \in Nat
          /\ Cardinality(InConn({"inline_fallback"}))' + One(conn[c] \in {"inline_fallback"})
                = Cardinality(InConn({"inline_fallback"})) + One(v \in {"inline_fallback"})
        BY ConnMoves
    <2>2. Cardinality(InStream({"fallback"}))' = Cardinality(InStream({"fallback"}))
        BY <1>1
    <2>3. /\ One(conn[c] \in {"inline_fallback"}) \in Int /\ One(v \in {"inline_fallback"}) \in Int
          /\ Cardinality(InStream({"fallback"})) \in Nat
        BY <1>2, <1>4
    <2>. QED BY <1>3, <2>1, <2>2, <2>3 DEF PermitsExact
<1>7. flow_limit' + Cardinality(InConn({"ws_flow"}))' + Cardinality(InStream({"flow"}))'
          = AtLeastOne(max_concurrent_flows)
    <2>1. /\ Cardinality(InConn({"ws_flow"})) \in Nat /\ Cardinality(InConn({"ws_flow"}))' \in Nat
          /\ Cardinality(InConn({"ws_flow"}))' + One(conn[c] \in {"ws_flow"})
                = Cardinality(InConn({"ws_flow"})) + One(v \in {"ws_flow"})
        BY ConnMoves
    <2>2. Cardinality(InStream({"flow"}))' = Cardinality(InStream({"flow"}))
        BY <1>1
    <2>3. /\ One(conn[c] \in {"ws_flow"}) \in Int /\ One(v \in {"ws_flow"}) \in Int
          /\ Cardinality(InStream({"flow"})) \in Nat
        BY <1>2, <1>4
    <2>. QED BY <1>3, <2>1, <2>2, <2>3 DEF PermitsExact
<1>8. PermitsExact'
    BY <1>5, <1>6, <1>7 DEF PermitsExact
<1>. QED BY <1>8, PermitsInRange
\* The same for a request.
LEMMA StreamPermits ==
    ASSUME AdmissionTypeOK, PermitsExact, NEW s \in Streams, NEW v, StreamTo(s, v), UNCHANGED conn,
           pre_auth_admission' \in Nat, fallback_admission' \in Nat, flow_limit' \in Nat,
           pre_auth_admission' + One(v \in StreamPreAuth)
               = pre_auth_admission + One(stream[s] \in StreamPreAuth),
           fallback_admission' + One(v \in {"fallback"}) = fallback_admission + One(stream[s] \in {"fallback"}),
           flow_limit' + One(v \in {"flow"}) = flow_limit + One(stream[s] \in {"flow"})
    PROVE  PermitsExact' /\ PermitTypes'
<1>1. \A P : InConn(P)' = InConn(P)
    BY DEF InConn
<1>2. \A P : Cardinality(InConn(P)) \in Nat
    BY CountedFinite
<1>3. pre_auth_admission \in Int /\ fallback_admission \in Int /\ flow_limit \in Int
    BY LimitTypes DEF AdmissionTypeOK
<1>4. \A b : One(b) \in {0, 1}
    BY DEF One
<1>5. pre_auth_admission' + Cardinality(InConn(ConnPreAuth))' + Cardinality(InStream(StreamPreAuth))'
          = pre_auth_max_concurrent
    <2>1. /\ Cardinality(InStream(StreamPreAuth)) \in Nat /\ Cardinality(InStream(StreamPreAuth))' \in Nat
          /\ Cardinality(InStream(StreamPreAuth))' + One(stream[s] \in StreamPreAuth)
                = Cardinality(InStream(StreamPreAuth)) + One(v \in StreamPreAuth)
        BY StreamMoves
    <2>2. Cardinality(InConn(ConnPreAuth))' = Cardinality(InConn(ConnPreAuth))
        BY <1>1
    <2>3. /\ One(stream[s] \in StreamPreAuth) \in Int /\ One(v \in StreamPreAuth) \in Int
          /\ Cardinality(InConn(ConnPreAuth)) \in Nat
        BY <1>2, <1>4
    <2>4. pre_auth_admission + Cardinality(InConn(ConnPreAuth)) + Cardinality(InStream(StreamPreAuth)) = pre_auth_max_concurrent
        BY DEF PermitsExact
    <2>5. /\ pre_auth_admission' \in Nat
          /\ pre_auth_admission' + One(v \in StreamPreAuth) = pre_auth_admission + One(stream[s] \in StreamPreAuth)
        OBVIOUS
    <2>. QED BY ONLY <1>3, <2>1, <2>2, <2>3, <2>4, <2>5
<1>6. fallback_admission' + Cardinality(InConn({"inline_fallback"}))' + Cardinality(InStream({"fallback"}))'
          = fallback_max_concurrent
    <2>1. /\ Cardinality(InStream({"fallback"})) \in Nat /\ Cardinality(InStream({"fallback"}))' \in Nat
          /\ Cardinality(InStream({"fallback"}))' + One(stream[s] \in {"fallback"})
                = Cardinality(InStream({"fallback"})) + One(v \in {"fallback"})
        BY StreamMoves
    <2>2. Cardinality(InConn({"inline_fallback"}))' = Cardinality(InConn({"inline_fallback"}))
        BY <1>1
    <2>3. /\ One(stream[s] \in {"fallback"}) \in Int /\ One(v \in {"fallback"}) \in Int
          /\ Cardinality(InConn({"inline_fallback"})) \in Nat
        BY <1>2, <1>4
    <2>4. fallback_admission + Cardinality(InConn({"inline_fallback"})) + Cardinality(InStream({"fallback"})) = fallback_max_concurrent
        BY DEF PermitsExact
    <2>5. /\ fallback_admission' \in Nat
          /\ fallback_admission' + One(v \in {"fallback"}) = fallback_admission + One(stream[s] \in {"fallback"})
        OBVIOUS
    <2>. QED BY ONLY <1>3, <2>1, <2>2, <2>3, <2>4, <2>5
<1>7. flow_limit' + Cardinality(InConn({"ws_flow"}))' + Cardinality(InStream({"flow"}))'
          = AtLeastOne(max_concurrent_flows)
    <2>1. /\ Cardinality(InStream({"flow"})) \in Nat /\ Cardinality(InStream({"flow"}))' \in Nat
          /\ Cardinality(InStream({"flow"}))' + One(stream[s] \in {"flow"})
                = Cardinality(InStream({"flow"})) + One(v \in {"flow"})
        BY StreamMoves
    <2>2. Cardinality(InConn({"ws_flow"}))' = Cardinality(InConn({"ws_flow"}))
        BY <1>1
    <2>3. /\ One(stream[s] \in {"flow"}) \in Int /\ One(v \in {"flow"}) \in Int
          /\ Cardinality(InConn({"ws_flow"})) \in Nat
        BY <1>2, <1>4
    <2>4. flow_limit + Cardinality(InConn({"ws_flow"})) + Cardinality(InStream({"flow"})) = AtLeastOne(max_concurrent_flows)
        BY DEF PermitsExact
    <2>5. /\ flow_limit' \in Nat
          /\ flow_limit' + One(v \in {"flow"}) = flow_limit + One(stream[s] \in {"flow"})
        OBVIOUS
    <2>. QED BY ONLY <1>3, <2>1, <2>2, <2>3, <2>4, <2>5
<1>8. PermitsExact'
    BY <1>5, <1>6, <1>7 DEF PermitsExact
<1>. QED BY <1>8, PermitsInRange

-----------------------------------------------------------------------------
\* The tasks

Tasks == NoOrphanStream /\ AcceptedOnly

TaskTypes ==
    /\ serving \in {"accepting", "draining", "stopped"}
    /\ conn \in [Conns -> ConnStates] /\ stream \in [Streams -> StreamStates]
    /\ aborted \in SUBSET Streams

\* The states of a connection whose requests may run.
Serving == {"h2", "inline_fallback", "joining"}

\* A connection moves, keeping what its requests rely on, and does not come in.
LEMMA TasksConn ==
    ASSUME AdmissionTypeOK, Tasks, NEW c \in Conns, NEW v \in ConnStates, ConnTo(c, v),
           UNCHANGED <<serving, stream, aborted>>,
           conn[c] \in Serving => v \in Serving,
           conn[c] # "none",
           v = "entered" => conn[c] = "entering",
           v # "entering"
    PROVE  Tasks' /\ TaskTypes'
<1>1. /\ conn' \in [Conns -> ConnStates] /\ conn'[c] = v
      /\ \A d \in Conns \ {c} : conn'[d] = conn[d]
    BY DEF ConnTo, AdmissionTypeOK
<1>2. NoOrphanStream'
    BY <1>1, AdmissionAssumption DEF Tasks, NoOrphanStream, Serving
<1>3. AcceptedOnly'
    BY <1>1 DEF Tasks, AcceptedOnly, InConn
<1>. QED BY <1>1, <1>2, <1>3 DEF Tasks, TaskTypes, AdmissionTypeOK

\* A connection ends and takes its requests with it.
LEMMA TasksEnd ==
    ASSUME AdmissionTypeOK, Tasks, NEW c \in Conns, conn[c] # "none", EndConn(c)
    PROVE  Tasks' /\ TaskTypes'
<1>1. /\ conn' \in [Conns -> ConnStates] /\ conn'[c] = "leave_global"
      /\ \A d \in Conns \ {c} : conn'[d] = conn[d]
    BY DEF EndConn, ConnTo, AdmissionTypeOK, ConnStates
<1>2. aborted' = aborted \cup StreamsOf(c) /\ UNCHANGED <<serving, stream>>
    BY DEF EndConn
<1>3. NoOrphanStream'
    BY <1>1, <1>2, AdmissionAssumption DEF Tasks, NoOrphanStream, StreamsOf
<1>4. AcceptedOnly'
    BY <1>1, <1>2 DEF Tasks, AcceptedOnly, InConn
<1>. QED BY <1>1, <1>2, <1>3, <1>4 DEF Tasks, TaskTypes, AdmissionTypeOK, StreamsOf

\* A request that runs moves on, or any request ends.
LEMMA TasksStream ==
    ASSUME AdmissionTypeOK, Tasks, NEW s \in Streams, NEW v \in StreamStates, StreamTo(s, v),
           UNCHANGED <<serving, conn>>,
           \/ v = "none" /\ aborted' = aborted \ {s}
           \/ aborted' = aborted /\ (stream[s] # "none" \/ conn[owner[s]] = "h2")
    PROVE  Tasks' /\ TaskTypes'
<1>1. /\ stream' \in [Streams -> StreamStates] /\ stream'[s] = v
      /\ \A d \in Streams \ {s} : stream'[d] = stream[d]
    BY DEF StreamTo, AdmissionTypeOK
<1>2. NoOrphanStream'
    BY <1>1 DEF Tasks, NoOrphanStream
<1>3. AcceptedOnly'
    BY DEF Tasks, AcceptedOnly, InConn
<1>. QED BY <1>1, <1>2, <1>3 DEF Tasks, TaskTypes, AdmissionTypeOK

-----------------------------------------------------------------------------
\* AuthFailureTracker

WindowTypes ==
    /\ windows \in [Sources -> -1..max_auth_failures_per_window]
    /\ Cardinality({a \in Sources : windows[a] # -1}) <= auth_failure_cache_max_entries

\* A failure is counted up to the limit, and a new source only while the table has room.
LEMMA WindowsRecord ==
    ASSUME AdmissionTypeOK, NEW a \in Sources, record_failure(a)
    PROVE  WindowTypes'
<1> DEFINE table == {b \in Sources : windows[b] # -1}
<1>1. /\ windows \in [Sources -> -1..max_auth_failures_per_window]
      /\ Cardinality(table) <= auth_failure_cache_max_entries
    BY DEF AdmissionTypeOK
<1>2. max_auth_failures_per_window \in Nat /\ auth_failure_cache_max_entries \in Nat
    BY LimitTypes
<1>3. CASE TableFull(a)
    BY <1>1, <1>3 DEF record_failure, WindowTypes
<1>4. CASE ~TableFull(a)
    <2> DEFINE n == IF RateLimited(a) THEN Failures(a) ELSE Failures(a) + 1
    <2>0. n \in 0..max_auth_failures_per_window
        BY <1>1, <1>2, <1>4 DEF RateLimited, Failures
    <2>1. windows' = [windows EXCEPT ![a] = n] /\ n \in 0..max_auth_failures_per_window
        BY <1>4, <2>0 DEF record_failure
    <2> HIDE DEF n
    <2>2. windows' \in [Sources -> -1..max_auth_failures_per_window]
        BY <1>1, <1>2, <2>1
    <2>3. table' = table \cup {a}
        BY <1>1, <1>2, <2>1
    <2>4. IsFiniteSet(table) /\ Cardinality(table) \in Nat
        BY AdmissionAssumption, FS_Subset, FS_CardinalityType
    <2>5. CASE a \in table
        <3>1. table' = table
            BY <2>3, <2>5
        <3>. QED BY <1>1, <2>2, <3>1 DEF WindowTypes
    <2>6. CASE a \notin table
        <3>1. Cardinality(table') = Cardinality(table) + 1
            BY <2>3, <2>4, <2>6, FS_AddElement
        <3>2. Cardinality(table) < auth_failure_cache_max_entries
            BY <1>2, <1>4, <2>4, <2>6 DEF TableFull
        <3>3. Cardinality(table') <= auth_failure_cache_max_entries
            BY <1>2, <2>4, <3>1, <3>2
        <3>. QED BY <2>2, <3>3 DEF WindowTypes
    <2>. QED BY <2>5, <2>6
<1>. QED BY <1>3, <1>4

\* A window that has passed leaves the table.
LEMMA WindowsElapse ==
    ASSUME AdmissionTypeOK, NEW a \in Sources, windows' = [windows EXCEPT ![a] = -1]
    PROVE  WindowTypes'
<1> DEFINE table == {b \in Sources : windows[b] # -1}
<1>1. /\ windows \in [Sources -> -1..max_auth_failures_per_window]
      /\ Cardinality(table) <= auth_failure_cache_max_entries
    BY DEF AdmissionTypeOK
<1>2. max_auth_failures_per_window \in Nat /\ auth_failure_cache_max_entries \in Nat
    BY LimitTypes
<1>3. windows' \in [Sources -> -1..max_auth_failures_per_window] /\ table' \subseteq table
    BY <1>1, <1>2
<1>4. IsFiniteSet(table) /\ Cardinality(table) \in Nat
    BY AdmissionAssumption, FS_Subset, FS_CardinalityType
<1>5. Cardinality(table') \in Nat /\ Cardinality(table') <= Cardinality(table)
    BY <1>3, <1>4, FS_Subset, FS_CardinalityType
<1>6. Cardinality(table') <= auth_failure_cache_max_entries
    BY <1>1, <1>2, <1>4, <1>5
<1>. QED BY <1>3, <1>6 DEF WindowTypes

-----------------------------------------------------------------------------
\* The steps

CountTypes == global_count \in Nat /\ source_counts \in [Sources -> Nat]

\* The invariant is looked at in parts that the steps keep separately.
LEMMA Parts ==
    /\ IInv => /\ AdmissionTypeOK /\ Limits /\ PermitsExact /\ Tasks
               /\ TaskTypes /\ CountTypes /\ PermitTypes /\ WindowTypes
    /\ Limits' /\ PermitsExact' /\ Tasks' /\ TaskTypes' /\ CountTypes' /\ PermitTypes' /\ WindowTypes'
          => IInv'
BY DEF IInv, Limits, Tasks, TaskTypes, CountTypes, PermitTypes, WindowTypes, AdmissionTypeOK

\* A connection that holds its place in the counts goes on or starts to leave.
LEMMA LimitsMove ==
    ASSUME IInv, NEW c \in Conns, NEW v \in Guarded \cup {"leave_global"}, ConnTo(c, v),
           conn[c] \in Guarded, UNCHANGED limits
    PROVE  Limits' /\ CountTypes'
<1>1. (conn[c] \in Counted <=> v \in Counted) /\ (conn[c] \in SourceCounted <=> v \in SourceCounted)
    BY GuardedCounted
<1>2. Limits'
    BY <1>1, Parts, LimitsKept
<1>. QED BY <1>2, Parts DEF CountTypes, limits

\* Dropping a connection's future returns what it holds.
LEMMA EndConnKeeps ==
    ASSUME IInv, NEW c \in Conns, conn[c] \in Guarded, EndConn(c)
    PROVE  IInv'
<1>1. Limits' /\ CountTypes'
    BY LimitsMove DEF EndConn
<1>2. Tasks' /\ TaskTypes'
    BY Parts, TasksEnd DEF Guarded
<1>3. pre_auth_admission \in Nat /\ fallback_admission \in Nat /\ flow_limit \in Nat
    BY Parts, LimitTypes DEF PermitTypes
<1>4. /\ pre_auth_admission' \in Nat /\ fallback_admission' \in Nat /\ flow_limit' \in Nat
      /\ pre_auth_admission' + One("leave_global" \in ConnPreAuth)
            = pre_auth_admission + One(conn[c] \in ConnPreAuth)
      /\ fallback_admission' + One("leave_global" \in {"inline_fallback"})
            = fallback_admission + One(conn[c] \in {"inline_fallback"})
      /\ flow_limit' + One("leave_global" \in {"ws_flow"}) = flow_limit + One(conn[c] \in {"ws_flow"})
    BY <1>3 DEF EndConn, Returned, One, ConnPreAuth
<1>5. PermitsExact' /\ PermitTypes'
    BY <1>4, Parts, ConnPermits DEF EndConn
<1>6. WindowTypes'
    BY Parts DEF EndConn, WindowTypes
<1>. QED BY <1>1, <1>2, <1>5, <1>6, Parts

\* So does the end of a request task.
LEMMA ReleaseKeeps ==
    ASSUME IInv, NEW s \in Streams, ReleaseStream(s), WindowTypes'
    PROVE  IInv'
<1>1. Limits' /\ CountTypes'
    BY Parts, LimitsUnchanged DEF ReleaseStream, CountTypes, limits
<1>2. Tasks' /\ TaskTypes'
    BY Parts, TasksStream DEF ReleaseStream, StreamStates
<1>3. pre_auth_admission \in Nat /\ fallback_admission \in Nat /\ flow_limit \in Nat
    BY Parts, LimitTypes DEF PermitTypes
<1>4. /\ pre_auth_admission' \in Nat /\ fallback_admission' \in Nat /\ flow_limit' \in Nat
      /\ pre_auth_admission' + One("none" \in StreamPreAuth)
            = pre_auth_admission + One(stream[s] \in StreamPreAuth)
      /\ fallback_admission' + One("none" \in {"fallback"})
            = fallback_admission + One(stream[s] \in {"fallback"})
      /\ flow_limit' + One("none" \in {"flow"}) = flow_limit + One(stream[s] \in {"flow"})
    BY <1>3 DEF ReleaseStream, Returned, One, StreamPreAuth
<1>5. PermitsExact' /\ PermitTypes'
    BY <1>4, Parts, StreamPermits DEF ReleaseStream
<1>. QED BY <1>1, <1>2, <1>5, Parts
\* The accept loop and the guard's drop.
LEMMA LimitSteps ==
    ASSUME IInv, NEW c \in Conns, Accept(c) \/ EnterSource(c) \/ LeaveGlobal(c) \/ LeaveSource(c)
    PROVE  IInv'
<1>0. PICK v \in ConnStates : ConnTo(c, v) /\ v \notin ConnPreAuth \cup {"inline_fallback", "ws_flow"}
                             /\ v \notin Serving /\ (v = "entering" => Accept(c))
                             /\ (v = "entered" => conn[c] = "entering")
    BY DEF Accept, EnterSource, LeaveGlobal, LeaveSource, ConnStates, ConnPreAuth, Serving
<1>1. /\ conn[c] \in {"none", "entering", "leave_global", "leave_source"}
      /\ UNCHANGED <<serving, stream, aborted, permits, windows>>
    BY DEF Accept, EnterSource, LeaveGlobal, LeaveSource
<1>2. Limits' /\ CountTypes'
    BY Parts, LimitsAccept, LimitsEnter, LimitsLeave DEF CountTypes
<1>3. PermitsExact' /\ PermitTypes'
    <2>1. pre_auth_admission \in Nat /\ fallback_admission \in Nat /\ flow_limit \in Nat
        BY Parts, LimitTypes DEF PermitTypes
    <2>2. /\ One(v \in ConnPreAuth) = One(conn[c] \in ConnPreAuth)
          /\ One(v \in {"inline_fallback"}) = One(conn[c] \in {"inline_fallback"})
          /\ One(v \in {"ws_flow"}) = One(conn[c] \in {"ws_flow"})
        BY <1>0, <1>1 DEF One, ConnPreAuth
    <2>. QED BY <1>0, <1>1, <2>1, <2>2, Parts, ConnPermits DEF permits
<1>4. Tasks' /\ TaskTypes'
    <2>1. CASE v # "entering" /\ conn[c] # "none"
        BY <1>0, <1>1, <2>1, Parts, TasksConn DEF Serving
    <2>2. CASE Accept(c)
        <3>1. /\ conn' \in [Conns -> ConnStates] /\ conn'[c] = "entering"
              /\ \A d \in Conns \ {c} : conn'[d] = conn[d]
            BY <2>2, Parts DEF Accept, ConnTo, TaskTypes, ConnStates
        <3>2. conn[c] = "none" /\ serving = "accepting" /\ UNCHANGED <<serving, stream, aborted>>
            BY <2>2 DEF Accept
        <3>3. NoOrphanStream'
            BY <3>1, <3>2, Parts, AdmissionAssumption DEF Tasks, NoOrphanStream
        <3>4. AcceptedOnly'
            BY <3>2 DEF AcceptedOnly
        <3>. QED BY <3>1, <3>2, <3>3, <3>4, Parts DEF Tasks, TaskTypes
    <2>. QED BY <1>0, <1>1, <2>1, <2>2 DEF EnterSource, LeaveGlobal, LeaveSource
<1>5. WindowTypes'
    BY <1>1, Parts DEF WindowTypes
<1>. QED BY <1>2, <1>3, <1>4, <1>5, Parts

\* A guarded connection goes on: what its step must show about permits and requests.
LEMMA ConnKeeps ==
    ASSUME IInv, NEW c \in Conns, NEW v \in Guarded, v # "entered", ConnTo(c, v), conn[c] \in Guarded,
           UNCHANGED <<serving, stream, aborted, limits>>, WindowTypes',
           conn[c] \in Serving => v \in Serving,
           pre_auth_admission' \in Nat, fallback_admission' \in Nat, flow_limit' \in Nat,
           pre_auth_admission' + One(v \in ConnPreAuth) = pre_auth_admission + One(conn[c] \in ConnPreAuth),
           fallback_admission' + One(v \in {"inline_fallback"})
               = fallback_admission + One(conn[c] \in {"inline_fallback"}),
           flow_limit' + One(v \in {"ws_flow"}) = flow_limit + One(conn[c] \in {"ws_flow"})
    PROVE  IInv'
<1>1. Limits' /\ CountTypes'
    BY LimitsMove
<1>2. PermitsExact' /\ PermitTypes'
    BY Parts, ConnPermits
<1>3. v \in ConnStates /\ v # "entering" /\ conn[c] # "none"
    BY DEF Guarded
<1>4. Tasks' /\ TaskTypes'
    BY <1>3, Parts, TasksConn
<1>. QED BY <1>1, <1>2, <1>4, Parts
\* What a step of a connection that gets no permit, or of one that needs none, relies on.
LEMMA PermitNats ==
    ASSUME IInv
    PROVE  pre_auth_admission \in Nat /\ fallback_admission \in Nat /\ flow_limit \in Nat
BY Parts, LimitTypes DEF PermitTypes

\* try_pre_auth_admission: a permit, or the way out.
LEMMA AdmitKeeps ==
    ASSUME IInv, NEW c \in Conns, AdmitConnection(c)
    PROVE  IInv'
<1>1. /\ conn[c] = "entered" /\ UNCHANGED <<serving, stream, aborted, limits>>
      /\ UNCHANGED <<fallback_admission, flow_limit>> /\ WindowTypes'
    BY Parts DEF AdmitConnection, WindowTypes
<1>2. CASE /\ pre_auth_admission > 0 /\ pre_auth_admission' = pre_auth_admission - 1
           /\ ConnTo(c, "tls")
    <2>1. "tls" \in Guarded /\ conn[c] \in Guarded /\ conn[c] \notin Serving
        BY <1>1 DEF Guarded, ConnStates, Serving
    <2>2. /\ One("tls" \in ConnPreAuth) = 1 /\ One(conn[c] \in ConnPreAuth) = 0
          /\ One("tls" \in {"inline_fallback"}) = 0 /\ One(conn[c] \in {"inline_fallback"}) = 0
          /\ One("tls" \in {"ws_flow"}) = 0 /\ One(conn[c] \in {"ws_flow"}) = 0
        BY <1>1 DEF One, ConnPreAuth
    <2>3. /\ pre_auth_admission' \in Nat /\ fallback_admission' \in Nat /\ flow_limit' \in Nat
          /\ pre_auth_admission' + 1 = pre_auth_admission
        BY <1>1, <1>2, PermitNats
    <2>. QED BY <1>1, <1>2, <2>1, <2>2, <2>3, PermitNats, ConnKeeps
<1>3. CASE ConnTo(c, "leave_global") /\ UNCHANGED pre_auth_admission
    <2>1. "leave_global" \in ConnStates /\ conn[c] \in Guarded /\ conn[c] \notin Serving
        BY <1>1 DEF Guarded, ConnStates, Serving
    <2>2. /\ One("leave_global" \in ConnPreAuth) = 0 /\ One(conn[c] \in ConnPreAuth) = 0
          /\ One("leave_global" \in {"inline_fallback"}) = 0 /\ One(conn[c] \in {"inline_fallback"}) = 0
          /\ One("leave_global" \in {"ws_flow"}) = 0 /\ One(conn[c] \in {"ws_flow"}) = 0
        BY <1>1 DEF One, ConnPreAuth
    <2>3. Limits' /\ CountTypes'
        BY <1>1, <1>3, <2>1, LimitsMove
    <2>4. PermitsExact' /\ PermitTypes'
        BY <1>1, <1>3, <2>2, PermitNats, Parts, ConnPermits
    <2>5. Tasks' /\ TaskTypes'
        BY <1>1, <1>3, <2>1, Parts, TasksConn
    <2>. QED BY <1>1, <2>3, <2>4, <2>5, Parts
<1>. QED BY <1>2, <1>3 DEF AdmitConnection

\* Handshakes succeed and loops end: the permits stay where they are.
LEMMA QuietSteps ==
    ASSUME IInv, NEW c \in Conns, HandshakeOk(c) \/ StopAccepting(c) \/ WsRejected(c)
    PROVE  IInv'
<1>1. PICK v \in {"h2_handshake", "ws_handshake", "h2", "ws_first", "joining", "ws_closing"} :
          ConnTo(c, v) /\ (conn[c] = "h2" => v = "joining")
    BY DEF HandshakeOk, StopAccepting, WsRejected
<1>2. /\ conn[c] \in {"tls", "h2_handshake", "ws_handshake", "h2", "ws_first"}
      /\ UNCHANGED <<serving, stream, aborted, limits, permits>>
    BY DEF HandshakeOk, StopAccepting, WsRejected
<1>3. WindowTypes'
    <2>1. CASE UNCHANGED windows
        BY <2>1, Parts DEF WindowTypes
    <2>2. CASE WsRejected(c)
        BY <2>2, Parts, WindowsRecord, AdmissionAssumption DEF WsRejected
    <2>. QED BY <2>1, <2>2 DEF HandshakeOk, StopAccepting
<1>4. /\ v \in Guarded /\ v # "entered" /\ conn[c] \in Guarded
      /\ conn[c] \in Serving => v \in Serving
    BY <1>1, <1>2 DEF Guarded, ConnStates, Serving
<1>5. /\ One(v \in ConnPreAuth) = One(conn[c] \in ConnPreAuth)
      /\ One(v \in {"inline_fallback"}) = One(conn[c] \in {"inline_fallback"})
      /\ One(v \in {"ws_flow"}) = One(conn[c] \in {"ws_flow"})
    BY <1>1, <1>2 DEF One, ConnPreAuth
<1>. QED BY <1>1, <1>2, <1>3, <1>4, <1>5, PermitNats, ConnKeeps DEF permits

\* A connection takes or returns one permit.
LEMMA PermitSteps ==
    ASSUME IInv, NEW c \in Conns,
           InlineFallback(c) \/ InlineFallbackDone(c) \/ WsAuthenticated(c) \/ WsOpened(c)
    PROVE  IInv'
<1>1. WindowTypes' /\ UNCHANGED <<serving, stream, aborted, limits>>
    BY Parts DEF InlineFallback, InlineFallbackDone, WsAuthenticated, WsOpened, WindowTypes
<1>0. /\ InlineFallback(c) => ConnTo(c, "inline_fallback")
      /\ InlineFallbackDone(c) => ConnTo(c, "h2")
      /\ WsAuthenticated(c) => ConnTo(c, "ws_open")
      /\ WsOpened(c) => ConnTo(c, "ws_flow")
    BY DEF InlineFallback, InlineFallbackDone, WsAuthenticated, WsOpened
<1>2. PICK v : ConnTo(c, v) /\
          \/ InlineFallback(c) /\ v = "inline_fallback"
          \/ InlineFallbackDone(c) /\ v = "h2"
          \/ WsAuthenticated(c) /\ v = "ws_open"
          \/ WsOpened(c) /\ v = "ws_flow"
    BY <1>0
<1>3. /\ v \in Guarded /\ v # "entered" /\ conn[c] \in Guarded
      /\ conn[c] \in Serving => v \in Serving
    BY <1>2 DEF InlineFallback, InlineFallbackDone, WsAuthenticated, WsOpened, Guarded, ConnStates, Serving
<1>4. /\ pre_auth_admission' \in Nat /\ fallback_admission' \in Nat /\ flow_limit' \in Nat
      /\ pre_auth_admission' + One(v \in ConnPreAuth) = pre_auth_admission + One(conn[c] \in ConnPreAuth)
      /\ fallback_admission' + One(v \in {"inline_fallback"})
            = fallback_admission + One(conn[c] \in {"inline_fallback"})
      /\ flow_limit' + One(v \in {"ws_flow"}) = flow_limit + One(conn[c] \in {"ws_flow"})
    <2>1. CASE InlineFallback(c) /\ v = "inline_fallback"
        BY <2>1, PermitNats DEF InlineFallback, One, ConnPreAuth
    <2>2. CASE InlineFallbackDone(c) /\ v = "h2"
        BY <2>2, PermitNats DEF InlineFallbackDone, One, ConnPreAuth
    <2>3. CASE WsAuthenticated(c) /\ v = "ws_open"
        BY <2>3, PermitNats DEF WsAuthenticated, One, ConnPreAuth
    <2>4. CASE WsOpened(c) /\ v = "ws_flow"
        BY <2>4, PermitNats DEF WsOpened, One, ConnPreAuth
    <2>. QED BY <1>2, <2>1, <2>2, <2>3, <2>4
<1>. QED BY <1>1, <1>2, <1>3, <1>4, ConnKeeps

\* Every way a connection ends: failed handshakes, errors, joined requests, closes and aborts.
LEMMA EndSteps ==
    ASSUME IInv, NEW c \in Conns,
           HandshakeFails(c) \/ ConnError(c) \/ Joined(c) \/ WsEnds(c) \/ WsClosed(c) \/ AbortConn(c)
    PROVE  IInv'
<1>1. EndConn(c)
    BY DEF HandshakeFails, ConnError, Joined, WsEnds, WsClosed, AbortConn
<1>2. CASE AbortConn(c)
    <2>1. conn[c] # "entering" /\ conn[c] \in ConnStates
        BY <1>2, Parts DEF AbortConn, Tasks, AcceptedOnly, InConn, TaskTypes
    <2>. QED BY <1>1, <1>2, <2>1, EndConnKeeps DEF AbortConn, Guarded
<1>3. CASE ~AbortConn(c)
    <2>1. conn[c] \in Guarded
        BY <1>3 DEF HandshakeFails, ConnError, Joined, WsEnds, WsClosed, Guarded, ConnStates
    <2>. QED BY <1>1, <2>1, EndConnKeeps
<1>. QED BY <1>2, <1>3
\* A request that runs, or a new one, moves on.
LEMMA StreamKeeps ==
    ASSUME IInv, NEW s \in Streams, NEW v \in StreamStates, StreamTo(s, v),
           UNCHANGED <<serving, conn, aborted, limits>>, WindowTypes',
           stream[s] # "none" \/ conn[owner[s]] = "h2",
           pre_auth_admission' \in Nat, fallback_admission' \in Nat, flow_limit' \in Nat,
           pre_auth_admission' + One(v \in StreamPreAuth)
               = pre_auth_admission + One(stream[s] \in StreamPreAuth),
           fallback_admission' + One(v \in {"fallback"}) = fallback_admission + One(stream[s] \in {"fallback"}),
           flow_limit' + One(v \in {"flow"}) = flow_limit + One(stream[s] \in {"flow"})
    PROVE  IInv'
<1>1. Limits' /\ CountTypes'
    BY Parts, LimitsUnchanged DEF CountTypes, limits
<1>2. PermitsExact' /\ PermitTypes'
    BY Parts, StreamPermits
<1>3. Tasks' /\ TaskTypes'
    BY Parts, TasksStream
<1>. QED BY <1>1, <1>2, <1>3, Parts

\* A request is accepted, authenticates or not, or opens its flow.
LEMMA StreamMovesOn ==
    ASSUME IInv, NEW s \in Streams,
           AcceptStream(s) \/ Authenticated(s) \/ NotAuthenticated(s) \/ FlowOpened(s)
    PROVE  IInv'
<1>1. WindowTypes' /\ UNCHANGED <<serving, conn, aborted, limits>>
    BY Parts DEF AcceptStream, Authenticated, NotAuthenticated, FlowOpened, WindowTypes
<1>2. CASE AcceptStream(s)
    <2>1. PICK v \in {"first_frame", "body"} : StreamTo(s, v)
        BY <1>2 DEF AcceptStream
    <2>2. /\ pre_auth_admission' \in Nat /\ fallback_admission' \in Nat /\ flow_limit' \in Nat
          /\ pre_auth_admission' + One(v \in StreamPreAuth)
                = pre_auth_admission + One(stream[s] \in StreamPreAuth)
          /\ fallback_admission' + One(v \in {"fallback"})
                = fallback_admission + One(stream[s] \in {"fallback"})
          /\ flow_limit' + One(v \in {"flow"}) = flow_limit + One(stream[s] \in {"flow"})
        <3>1. pre_auth_admission \in Nat /\ fallback_admission \in Nat /\ flow_limit \in Nat
            BY PermitNats
        <3>2. /\ stream[s] = "none" /\ pre_auth_admission > 0
              /\ pre_auth_admission' = pre_auth_admission - 1
              /\ fallback_admission' = fallback_admission /\ flow_limit' = flow_limit
            BY <1>2 DEF AcceptStream
        <3>. QED BY <3>1, <3>2 DEF One, StreamPreAuth
    <2>3. v \in StreamStates /\ conn[owner[s]] = "h2"
        BY <1>2 DEF AcceptStream, StreamStates
    <2>. QED BY <1>1, <2>1, <2>2, <2>3, StreamKeeps
<1>3. CASE Authenticated(s)
    <2>1. StreamTo(s, "open_wait") /\ stream[s] = "first_frame" /\ "open_wait" \in StreamStates
        BY <1>3 DEF Authenticated, Running, StreamStates
    <2>2. /\ pre_auth_admission' \in Nat /\ fallback_admission' \in Nat /\ flow_limit' \in Nat
          /\ pre_auth_admission' + One("open_wait" \in StreamPreAuth)
                = pre_auth_admission + One(stream[s] \in StreamPreAuth)
          /\ fallback_admission' + One("open_wait" \in {"fallback"})
                = fallback_admission + One(stream[s] \in {"fallback"})
          /\ flow_limit' + One("open_wait" \in {"flow"}) = flow_limit + One(stream[s] \in {"flow"})
        BY <1>3, <2>1, PermitNats DEF Authenticated, One, StreamPreAuth
    <2>. QED BY <1>1, <2>1, <2>2, StreamKeeps
<1>4. CASE NotAuthenticated(s)
    <2>1. /\ StreamTo(s, "rejected") /\ stream[s] = "first_frame" /\ "rejected" \in StreamStates
          /\ UNCHANGED permits
        BY <1>4 DEF NotAuthenticated, Running, StreamStates
    <2>2. /\ One("rejected" \in StreamPreAuth) = One(stream[s] \in StreamPreAuth)
          /\ One("rejected" \in {"fallback"}) = One(stream[s] \in {"fallback"})
          /\ One("rejected" \in {"flow"}) = One(stream[s] \in {"flow"})
        BY <2>1 DEF One, StreamPreAuth
    <2>. QED BY <1>1, <2>1, <2>2, PermitNats, StreamKeeps DEF permits
<1>5. CASE FlowOpened(s)
    <2>1. StreamTo(s, "flow") /\ stream[s] = "open_wait" /\ "flow" \in StreamStates
        BY <1>5 DEF FlowOpened, Running, StreamStates
    <2>2. /\ pre_auth_admission' \in Nat /\ fallback_admission' \in Nat /\ flow_limit' \in Nat
          /\ pre_auth_admission' + One("flow" \in StreamPreAuth)
                = pre_auth_admission + One(stream[s] \in StreamPreAuth)
          /\ fallback_admission' + One("flow" \in {"fallback"})
                = fallback_admission + One(stream[s] \in {"fallback"})
          /\ flow_limit' + One("flow" \in {"flow"}) = flow_limit + One(stream[s] \in {"flow"})
        BY <1>5, <2>1, PermitNats DEF FlowOpened, One, StreamPreAuth
    <2>. QED BY <1>1, <2>1, <2>2, StreamKeeps
<1>. QED BY <1>2, <1>3, <1>4, <1>5

\* send_fallback_with_body holds both permits; without a second one the request ends.
LEMMA SendFallbackKeeps ==
    ASSUME IInv, NEW s \in Streams, stream[s] \in {"rejected", "body"}, SendFallback(s), WindowTypes'
    PROVE  IInv'
<1>1. CASE /\ fallback_admission > 0 /\ fallback_admission' = fallback_admission - 1
           /\ StreamTo(s, "fallback")
           /\ UNCHANGED <<serving, conn, aborted, limits, pre_auth_admission, flow_limit>>
    <2>1. /\ pre_auth_admission' \in Nat /\ fallback_admission' \in Nat /\ flow_limit' \in Nat
          /\ pre_auth_admission' + One("fallback" \in StreamPreAuth)
                = pre_auth_admission + One(stream[s] \in StreamPreAuth)
          /\ fallback_admission' + One("fallback" \in {"fallback"})
                = fallback_admission + One(stream[s] \in {"fallback"})
          /\ flow_limit' + One("fallback" \in {"flow"}) = flow_limit + One(stream[s] \in {"flow"})
        BY <1>1, PermitNats DEF One, StreamPreAuth
    <2>2. "fallback" \in StreamStates /\ stream[s] # "none"
        BY DEF StreamStates
    <2>. QED BY <1>1, <2>1, <2>2, StreamKeeps
<1>2. CASE ReleaseStream(s)
    BY <1>2, ReleaseKeeps
<1>. QED BY <1>1, <1>2 DEF SendFallback

\* A request is answered by the fallback or ends, by itself or aborted.
LEMMA StreamEnds ==
    ASSUME IInv, NEW s \in Streams,
           \/ RejectToFallback(s) \/ BodyCollected(s) \/ BodyFails(s) \/ FallbackSent(s)
           \/ FlowRefused(s) \/ FlowEnds(s) \/ DropAborted(s)
    PROVE  IInv'
<1>1. CASE RejectToFallback(s)
    <2>1. stream[s] = "rejected" /\ record_failure(source[owner[s]])
        BY <1>1 DEF RejectToFallback, Running
    <2>2. WindowTypes'
        BY <2>1, Parts, WindowsRecord, AdmissionAssumption
    <2>. QED BY <1>1, <2>1, <2>2, ReleaseKeeps, SendFallbackKeeps DEF RejectToFallback
<1>2. CASE BodyCollected(s)
    BY <1>2, Parts, SendFallbackKeeps DEF BodyCollected, Running, WindowTypes
<1>3. CASE EndStream(s)
    BY <1>3, Parts, ReleaseKeeps DEF EndStream, WindowTypes
<1>. QED BY <1>1, <1>2, <1>3 DEF BodyFails, FallbackSent, FlowRefused, FlowEnds, DropAborted
\* serve stops accepting, and returns when every task has been joined.
LEMMA ServingSteps ==
    ASSUME IInv, Shutdown \/ ServeReturns
    PROVE  IInv'
<1>1. UNCHANGED <<conn, stream, aborted, limits, permits, windows>>
    BY DEF Shutdown, ServeReturns, tasks
<1>2. Limits' /\ CountTypes'
    BY <1>1, Parts, LimitsUnchanged DEF CountTypes, limits
<1>3. PermitsExact' /\ PermitTypes'
    BY <1>1, Parts, PermitsUnchanged
<1>4. WindowTypes'
    BY <1>1, Parts DEF WindowTypes
<1>5. NoOrphanStream'
    BY <1>1, Parts DEF Tasks, NoOrphanStream
<1>6. AcceptedOnly'
    <2>1. CASE Shutdown
        BY <1>1, <2>1 DEF Shutdown, AcceptedOnly, InConn
    <2>2. CASE ServeReturns
        <3>1. \A c \in Conns : conn[c] = "none"
            BY <2>2, Parts DEF ServeReturns, InConn, TaskTypes
        <3>. QED BY <1>1, <3>1 DEF AcceptedOnly, InConn
    <2>. QED BY <2>1, <2>2
<1>7. TaskTypes'
    BY <1>1, Parts DEF Shutdown, ServeReturns, TaskTypes
<1>. QED BY <1>2, <1>3, <1>4, <1>5, <1>6, <1>7, Parts DEF Tasks

\* Steps that leave everything but the failure windows alone.
LEMMA WindowSteps ==
    ASSUME IInv, UNCHANGED <<serving, tasks, limits, permits>>, WindowTypes'
    PROVE  IInv'
<1>1. UNCHANGED <<conn, stream, aborted>>
    BY DEF tasks
<1>2. Limits' /\ CountTypes'
    BY <1>1, Parts, LimitsUnchanged DEF CountTypes, limits
<1>3. PermitsExact' /\ PermitTypes'
    BY <1>1, Parts, PermitsUnchanged
<1>4. Tasks' /\ TaskTypes'
    BY <1>1, Parts DEF Tasks, TaskTypes, NoOrphanStream, AcceptedOnly, InConn
<1>. QED BY <1>2, <1>3, <1>4, Parts

\* Every step of admission keeps the invariant.
LEMMA InvStep ==
    ASSUME IInv, [AdmissionNext]_admission
    PROVE  IInv'
<1>1. ASSUME NEW c \in Conns, ConnDue(c) \/ ConnEvent(c)
      PROVE  IInv'
    BY <1>1, LimitSteps, AdmitKeeps, QuietSteps, PermitSteps, EndSteps DEF ConnDue, ConnEvent, ConnIdle
<1>2. ASSUME NEW s \in Streams, StreamDue(s) \/ StreamEvent(s)
      PROVE  IInv'
    BY <1>2, StreamMovesOn, StreamEnds DEF StreamDue, StreamEvent
<1>3. ASSUME NEW a \in Sources, WindowElapses(a)
      PROVE  IInv'
    BY <1>3, Parts, WindowsElapse, WindowSteps DEF WindowElapses
<1>4. CASE Shutdown \/ ServeReturns
    BY <1>4, ServingSteps
<1>5. CASE UNCHANGED admission
    BY <1>5, Parts, WindowSteps DEF admission, WindowTypes
<1>. QED BY <1>1, <1>2, <1>3, <1>4, <1>5 DEF AdmissionNext

\* The server starts with nothing counted and every permit free.
LEMMA InvInit ==
    ASSUME AdmissionInit
    PROVE  IInv
<1>1. \A P : "none" \notin P => InConn(P) = {} /\ InStream(P) = {}
    BY DEF AdmissionInit, InConn, InStream
<1>2. Cardinality({}) = 0
    BY FS_EmptySet
<1>3. AdmissionTypeOK
    <2>1. {a \in Sources : windows[a] # -1} = {}
        BY DEF AdmissionInit
    <2>2. windows \in [Sources -> -1..max_auth_failures_per_window]
        BY LimitTypes DEF AdmissionInit
    <2>. QED BY <1>2, <2>1, <2>2, LimitTypes DEF AdmissionInit, AdmissionTypeOK, ConnStates, StreamStates
<1>4. ConnectionsCounted
    <2>1. InConn(Counted) = {} /\ \A a \in Sources : OfSource(a, SourceCounted) = {}
        BY <1>1, GuardedCounted DEF OfSource
    <2>. QED BY <1>2, <2>1, LimitsMean DEF AdmissionInit
<1>5. CountsBounded
    BY LimitTypes DEF CountsBounded, AdmissionInit
<1>6. PermitsExact
    <2>1. /\ InConn(ConnPreAuth) = {} /\ InStream(StreamPreAuth) = {}
          /\ InConn({"inline_fallback"}) = {} /\ InStream({"fallback"}) = {}
          /\ InConn({"ws_flow"}) = {} /\ InStream({"flow"}) = {}
        BY <1>1 DEF ConnPreAuth, StreamPreAuth
    <2>2. /\ pre_auth_admission = pre_auth_max_concurrent /\ fallback_admission = fallback_max_concurrent
          /\ flow_limit = AtLeastOne(max_concurrent_flows)
        BY DEF AdmissionInit
    <2>3. /\ pre_auth_admission + 0 + 0 = pre_auth_max_concurrent
          /\ fallback_admission + 0 + 0 = fallback_max_concurrent
          /\ flow_limit + 0 + 0 = AtLeastOne(max_concurrent_flows)
        BY <2>2, LimitTypes
    <2>. QED BY <1>2, <2>1, <2>3 DEF PermitsExact
<1>7. NoOrphanStream /\ AcceptedOnly
    BY DEF NoOrphanStream, AcceptedOnly, AdmissionInit
<1>. QED BY <1>3, <1>4, <1>5, <1>6, <1>7 DEF IInv

\* IInv holds in every reachable state of the server's admission.
THEOREM Invariance == AdmissionSpec => []IInv
<1>. QED BY InvInit, InvStep, PTL DEF AdmissionSpec

\* Type correctness: in particular the counters of ConnectionLimitTracker never go below
\* zero, no semaphore has more permits than it was made with, and the table of
\* AuthFailureTracker never outgrows auth_failure_cache_max_entries.
THEOREM TypeCorrect == AdmissionSpec => []AdmissionTypeOK
<1>1. IInv => AdmissionTypeOK
    BY DEF IInv
<1>. QED BY <1>1, Invariance, PTL

\* Admission is exact for every number of connections, requests and sources and every
\* limit: counters and semaphores count what is there, the caps of serve hold, no
\* request outlives its connection, and a stopped server is empty.
THEOREM AdmissionExact == AdmissionSpec => []AdmissionIsExact
<1>1. ASSUME IInv
      PROVE  ConnectionCaps
    <2>1. /\ Cardinality(InConn(Guarded)) \in Nat /\ Cardinality(InConn(Counted)) \in Nat
          /\ Cardinality(InConn(Guarded)) <= Cardinality(InConn(Counted))
        <3>1. InConn(Guarded) \subseteq InConn(Counted)
            BY GuardedCounted DEF InConn
        <3>. QED BY <3>1, CountedFinite, FS_Subset
    <2>2. ASSUME NEW a \in Sources
          PROVE  /\ Cardinality(OfSource(a, Guarded)) \in Nat
                 /\ Cardinality(OfSource(a, SourceCounted)) \in Nat
                 /\ Cardinality(OfSource(a, Guarded)) <= Cardinality(OfSource(a, SourceCounted))
        <3>1. OfSource(a, Guarded) \subseteq OfSource(a, SourceCounted)
            BY GuardedCounted DEF OfSource, InConn
        <3>. QED BY <3>1, CountedFinite, FS_Subset
    <2>3. /\ global_count = Cardinality(InConn(Counted)) /\ global_count <= AtLeastOne(global_limit)
          /\ \A a \in Sources : source_counts[a] = Cardinality(OfSource(a, SourceCounted))
          /\ \A a \in Sources : source_counts[a] <= AtLeastOne(per_source_limit)
        BY <1>1, LimitsMean DEF IInv, CountsBounded
    <2>4. Cardinality(InConn(Guarded)) <= AtLeastOne(global_limit)
        BY <2>1, <2>3, LimitTypes
    <2>5. ASSUME NEW a \in Sources
          PROVE  Cardinality(OfSource(a, Guarded)) <= AtLeastOne(per_source_limit)
        <3>1. /\ source_counts[a] = Cardinality(OfSource(a, SourceCounted))
              /\ source_counts[a] <= AtLeastOne(per_source_limit)
            BY <2>3
        <3>2. /\ Cardinality(OfSource(a, Guarded)) \in Nat
              /\ Cardinality(OfSource(a, SourceCounted)) \in Nat
              /\ Cardinality(OfSource(a, Guarded)) <= Cardinality(OfSource(a, SourceCounted))
            BY <2>2
        <3>. QED BY ONLY <3>1, <3>2, LimitTypes
    <2>. QED BY <2>4, <2>5 DEF ConnectionCaps
<1>2. ASSUME IInv
      PROVE  StoppedIsEmpty
    <2> SUFFICES ASSUME serving = "stopped"
                 PROVE  /\ global_count = 0 /\ \A a \in Sources : source_counts[a] = 0
                        /\ InStream(StreamStates \ {"none"}) \subseteq aborted
        BY DEF StoppedIsEmpty
    <2>1. \A c \in Conns : conn[c] = "none"
        BY <1>2 DEF IInv, AcceptedOnly
    <2>2. InConn(Counted) = {} /\ \A a \in Sources : OfSource(a, SourceCounted) = {}
        BY <2>1, GuardedCounted DEF InConn, OfSource
    <2>3. global_count = 0 /\ \A a \in Sources : source_counts[a] = 0
        BY <1>2, <2>2, LimitsMean, FS_EmptySet DEF IInv
    <2>4. InStream(StreamStates \ {"none"}) \subseteq aborted
        BY <1>2, <2>1, AdmissionAssumption DEF IInv, NoOrphanStream, InStream
    <2>. QED BY <2>3, <2>4
<1>3. IInv => AdmissionIsExact
    BY <1>1, <1>2 DEF IInv, AdmissionIsExact
<1>. QED BY <1>3, Invariance, PTL
=============================================================================
