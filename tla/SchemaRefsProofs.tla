--------------------------- MODULE SchemaRefsProofs ---------------------------
(***************************************************************************)
(* The traversal of getSchemasRef collects what can be reached, for every  *)
(* definition and every operation, cyclic ones included.                   *)
(***************************************************************************)
EXTENDS SchemaRefs, SequenceTheorems, TLAPS

\* The schemas in the loops of a stack.
Frames(s) == UNION {s[k] : k \in 1..Len(s)}

\* What is still to be looked at: in the loops, among the parameters, the body.
Pending ==
    (Frames(stack) \cup parameters
        \cup (IF phase = "parameters" THEN BodySchema ELSE {})) \ {Nil}

\* A loop that finds nil has nothing else to find.
NilAlone == \A k \in 1..Len(stack) : Nil \in stack[k] => stack[k] = {Nil}

Idle == phase = "none" => stack = <<>> /\ refs = {}

Busy ==
    phase # "none" =>
        /\ document \in Documents
        /\ operation \in Operations
        /\ parameters \subseteq operation.parameters
        /\ phase = "body" => parameters = {}

\* visited is what has been followed, of which only the named schemas are recorded.
\* It and what is pending make up the roots and whatever the visited schemas use.
Traversed(visited) ==
    /\ refs = visited \cap Name
    /\ visited \cup Pending \subseteq Reached(FollowedBy, Roots)
    /\ Roots \subseteq visited \cup Pending
    /\ \A n \in visited : Followed(n) \subseteq visited \cup Pending

TraversalInv == phase # "none" => \E visited \in SUBSET Node : Traversed(visited)

SchemaInv == SchemaTypeOK /\ NilAlone /\ Idle /\ Busy /\ TraversalInv

-----------------------------------------------------------------------------
(* Loops.                                                                  *)

\* The stack without its innermost loop.
LEMMA CallerFrames ==
    ASSUME NEW S, NEW s \in Seq(S), s # <<>>
    PROVE  /\ SubSeq(s, 1, Len(s) - 1) \in Seq(S)
           /\ Len(SubSeq(s, 1, Len(s) - 1)) = Len(s) - 1
           /\ \A k \in 1..Len(s) - 1 : SubSeq(s, 1, Len(s) - 1)[k] = s[k]
           /\ Len(s) \in 1..Len(s)
           /\ s[Len(s)] \in S
           /\ Frames(s) = Frames(SubSeq(s, 1, Len(s) - 1)) \cup s[Len(s)]
<1> DEFINE t == SubSeq(s, 1, Len(s) - 1)
<1>1. Len(s) \in Nat /\ Len(s) > 0
    OBVIOUS
<1>2. t \in Seq(S) /\ Len(t) = Len(s) - 1 /\ \A k \in 1..Len(s) - 1 : t[k] = s[k]
    <2>1. \A k \in 1..Len(s) - 1 : s[k] \in S
        BY <1>1
    <2>2. /\ t \in Seq(S)
          /\ Len(t) = IF 1 <= Len(s) - 1 THEN Len(s) - 1 - 1 + 1 ELSE 0
          /\ \A k \in 1..Len(s) - 1 - 1 + 1 : t[k] = s[1 + k - 1]
        BY <1>1, <2>1, SubSeqProperties
    <2> HIDE DEF t
    <2>3. Len(t) = Len(s) - 1
        <3>1. CASE Len(s) = 1
            BY <2>2, <3>1
        <3>2. CASE Len(s) # 1
            <4>1. \A n \in Nat : n > 0 /\ n # 1 => 1 <= n - 1 /\ n - 1 - 1 + 1 = n - 1
                OBVIOUS
            <4>2. 1 <= Len(s) - 1 /\ Len(s) - 1 - 1 + 1 = Len(s) - 1
                BY <1>1, <3>2, <4>1
            <4> QED
                BY <2>2, <4>2
        <3> QED
            BY <3>1, <3>2
    <2>4. \A k \in 1..Len(s) - 1 : k \in 1..Len(s) - 1 - 1 + 1 /\ 1 + k - 1 = k
        BY <1>1
    <2>5. \A k \in 1..Len(s) - 1 : t[k] = s[k]
        BY <2>2, <2>4
    <2> QED
        BY <2>2, <2>3, <2>5
<1>3. Len(s) \in 1..Len(s) /\ s[Len(s)] \in S
    BY <1>1
<1>4. 1..Len(s) = 1..Len(t) \cup {Len(s)}
    BY <1>1, <1>2
<1>5. Frames(s) = Frames(t) \cup s[Len(s)]
    <2> HIDE DEF t
    <2>1. \A x : x \in Frames(s) <=> \E k \in 1..Len(s) : x \in s[k]
        BY DEF Frames
    <2>2. \A x : x \in Frames(t) <=> \E k \in 1..Len(t) : x \in t[k]
        BY DEF Frames
    <2> QED
        BY <1>1, <1>2, <1>4, <2>1, <2>2
<1> QED
    BY <1>2, <1>3, <1>5

\* The stack with its innermost loop going on, and possibly a new one.
LEMMA WithoutFrames ==
    ASSUME NEW S, NEW s \in Seq(SUBSET S), s # <<>>, NEW n
    PROVE  LET t == [s EXCEPT ![Len(s)] = @ \ {n}] IN
           /\ t \in Seq(SUBSET S)
           /\ Len(t) = Len(s)
           /\ \A k \in 1..Len(s) : t[k] \subseteq s[k]
           /\ Frames(t) \subseteq Frames(s)
           /\ Frames(s) \subseteq Frames(t) \cup {n}
<1> DEFINE t == [s EXCEPT ![Len(s)] = @ \ {n}]
<1>1. Len(s) \in Nat /\ Len(s) > 0
    OBVIOUS
<1>2. t \in Seq(SUBSET S) /\ Len(t) = Len(s)
    BY <1>1
<1>3. \A k \in 1..Len(s) : t[k] \subseteq s[k] /\ s[k] \subseteq t[k] \cup {n}
    BY <1>1
<1> HIDE DEF t
<1>4. \A x : x \in Frames(s) <=> \E k \in 1..Len(s) : x \in s[k]
    BY DEF Frames
<1>5. \A x : x \in Frames(t) <=> \E k \in 1..Len(t) : x \in t[k]
    BY DEF Frames
<1>6. Frames(t) \subseteq Frames(s) /\ Frames(s) \subseteq Frames(t) \cup {n}
    BY <1>2, <1>3, <1>4, <1>5
<1> QED
    BY <1>2, <1>3, <1>6 DEF t

LEMMA AppendFrames ==
    ASSUME NEW S, NEW s \in Seq(SUBSET S), NEW f \in SUBSET S
    PROVE  /\ Append(s, f) \in Seq(SUBSET S)
           /\ Len(Append(s, f)) = Len(s) + 1
           /\ \A k \in 1..Len(s) : Append(s, f)[k] = s[k]
           /\ Append(s, f)[Len(s) + 1] = f
           /\ Frames(Append(s, f)) = Frames(s) \cup f
<1> DEFINE t == Append(s, f)
<1>1. /\ Len(s) \in Nat
      /\ t \in Seq(SUBSET S)
      /\ Len(t) = Len(s) + 1
      /\ \A k \in 1..Len(s) : t[k] = s[k]
      /\ t[Len(s) + 1] = f
    OBVIOUS
<1> HIDE DEF t
<1>2. 1..Len(t) = 1..Len(s) \cup {Len(s) + 1}
    BY <1>1
<1>3. \A x : x \in Frames(s) <=> \E k \in 1..Len(s) : x \in s[k]
    BY DEF Frames
<1>4. \A x : x \in Frames(t) <=> \E k \in 1..Len(t) : x \in t[k]
    BY DEF Frames
<1>5. Frames(t) = Frames(s) \cup f
    BY <1>1, <1>2, <1>3, <1>4
<1> QED
    BY <1>1, <1>5 DEF t

LEMMA OneFrame ==
    ASSUME NEW f
    PROVE  Len(<<f>>) = 1 /\ <<f>>[1] = f /\ Frames(<<f>>) = f
BY DEF Frames

LEMMA NoFrame == Frames(<<>>) = {}
BY DEF Frames

-----------------------------------------------------------------------------
(* Definitions and operations.                                             *)

LEMMA FollowedInNode ==
    ASSUME document \in Documents, NEW n \in Node
    PROVE  Followed(n) \in SUBSET Node
<1>1. IsDocument(document)
    BY SchemaAssumption DEF SchemaAssumption
<1>2. CASE Present(n) = {}
    BY <1>2 DEF Followed
<1>3. CASE Present(n) # {}
    <2>1. Present(n) \subseteq 1..6
        BY DEF Present, Keywords
    <2>2. \E i \in Present(n) : \A j \in Present(n) : i <= j
        BY <1>3, <2>1
    <2>3. PICK i \in Present(n) : i = CHOOSE x \in Present(n) : \A y \in Present(n) : x <= y
        BY <2>2
    <2>4. Followed(n) = document[n][Keywords[i]]
        BY <1>3, <2>3 DEF Followed
    <2>5. Keywords[i] \in DOMAIN document[n]
        BY DEF Present
    <2> QED
        BY <1>1, <2>4, <2>5 DEF IsDocument
<1> QED
    BY <1>2, <1>3

\* The schema of a body is one schema, if any.
LEMMA BodyIsOneSchema ==
    ASSUME operation \in Operations
    PROVE  /\ BodySchema \in SUBSET (Node \cup {Nil})
           /\ Nil \in BodySchema => BodySchema = {Nil}
           /\ operation.parameters \in SUBSET Node
<1>1. /\ operation.parameters \in SUBSET Node
      /\ operation.content \in Contents
    BY SchemaAssumption DEF SchemaAssumption
<1>2. PICK types \in SUBSET ContentType : operation.content \in [types -> Node \cup {Nil}]
    BY <1>1 DEF Contents
<1> DEFINE there == {"json", "wildcard"} \cap DOMAIN operation.content
           type == IF "json" \in there THEN "json" ELSE "wildcard"
<1>3. BodySchema = IF there = {} THEN {} ELSE {operation.content[type]}
    BY DEF BodySchema
<1>4. there # {} => operation.content[type] \in Node \cup {Nil}
    <2>1. there # {} => type \in types
        BY <1>2
    <2> QED
        BY <1>2, <2>1
<1> QED
    BY <1>1, <1>3, <1>4

\* What can be reached holds the roots, is closed, and is the least such set.
LEMMA ReachedIsLeast ==
    ASSUME NEW next, NEW roots \in SUBSET Node,
           \A n \in Node : next[n] \in SUBSET Node
    PROVE  LET R == Reached(next, roots) IN
           /\ R \in SUBSET Node
           /\ roots \subseteq R
           /\ \A n \in R : next[n] \subseteq R
           /\ \A X \in SUBSET Node :
                 roots \subseteq X /\ (\A n \in X : next[n] \subseteq X) => R \subseteq X
BY DEF Reached

-----------------------------------------------------------------------------
(* The steps.                                                              *)

LEMMA InitSchemaInv == SchemaInit => SchemaInv
BY DEF SchemaInit, SchemaInv, SchemaTypeOK, NilAlone, Idle, Busy, TraversalInv, Phases

\* What a step of the traversal leaves alone determines what can be reached.
LEMMA SameReached ==
    ASSUME UNCHANGED <<document, operation>>
    PROVE  /\ Roots' = Roots
           /\ BodySchema' = BodySchema
           /\ FollowedBy' = FollowedBy
           /\ Reached(FollowedBy, Roots)' = Reached(FollowedBy, Roots)
           /\ \A n : Followed(n)' = Followed(n)
BY DEF Roots, BodySchema, FollowedBy, Reached, Followed, Present

\* What can be reached, while an operation is being looked at.
LEMMA ReachedWhileBusy ==
    ASSUME document \in Documents, operation \in Operations
    PROVE  LET R == Reached(FollowedBy, Roots) IN
           /\ R \in SUBSET Node
           /\ Roots \in SUBSET Node
           /\ Roots \subseteq R
           /\ \A n \in R : Followed(n) \subseteq R
           /\ \A X \in SUBSET Node :
                 Roots \subseteq X /\ (\A n \in X : Followed(n) \subseteq X) => R \subseteq X
<1>1. Roots \in SUBSET Node
    BY BodyIsOneSchema DEF Roots
<1>2. \A n \in Node : FollowedBy[n] = Followed(n) /\ Followed(n) \in SUBSET Node
    BY FollowedInNode DEF FollowedBy
<1> HIDE DEF FollowedBy
<1>3. LET R == Reached(FollowedBy, Roots) IN
      /\ R \in SUBSET Node
      /\ Roots \subseteq R
      /\ \A n \in R : FollowedBy[n] \subseteq R
      /\ \A X \in SUBSET Node :
            Roots \subseteq X /\ (\A n \in X : FollowedBy[n] \subseteq X) => R \subseteq X
    BY ONLY <1>1, <1>2, ReachedIsLeast
<1> QED
    BY <1>1, <1>2, <1>3

LEMMA RootsAreReached ==
    document \in Documents /\ operation \in Operations
        => Roots \subseteq Reached(FollowedBy, Roots)
BY ReachedWhileBusy

\* A step that visits the schemas of new, and leaves pending what it does not visit
\* and what they use, goes on with the traversal.
LEMMA TraversalGoesOn ==
    ASSUME document \in Documents, operation \in Operations,
           UNCHANGED <<document, operation>>,
           NEW visited \in SUBSET Node, Traversed(visited),
           NEW new \in SUBSET Node, new \subseteq Pending,
           refs' = (visited \cup new) \cap Name,
           Pending \subseteq Pending' \cup visited \cup new,
           \A m \in Pending' : m \in Pending \/ \E n \in new : m \in Followed(n),
           \A n \in new : Followed(n) \subseteq Pending' \cup visited \cup new
    PROVE  TraversalInv'
<1> DEFINE R == Reached(FollowedBy, Roots)
<1>1. /\ visited \cup Pending \subseteq R
      /\ Roots \subseteq visited \cup Pending
      /\ \A n \in visited : Followed(n) \subseteq visited \cup Pending
    BY DEF Traversed
<1>2. R' = R /\ Roots' = Roots /\ \A n : Followed(n)' = Followed(n)
    BY SameReached
<1>3. \A n \in R : Followed(n) \subseteq R
    BY ReachedWhileBusy
<1> HIDE DEF R
<1>4. visited \cup new \cup Pending' \subseteq R'
    BY <1>1, <1>2, <1>3
<1>5. Roots' \subseteq visited \cup new \cup Pending'
    BY <1>1, <1>2
<1>6. \A n \in visited \cup new : Followed(n)' \subseteq visited \cup new \cup Pending'
    BY <1>1, <1>2
<1>7. Traversed(visited \cup new)'
    BY <1>4, <1>5, <1>6 DEF Traversed, R
<1>8. visited \cup new \in SUBSET Node
    OBVIOUS
<1> QED
    BY <1>7, <1>8 DEF TraversalInv

\* A step that visits nothing.
LEMMA TraversalWaits ==
    ASSUME document \in Documents, operation \in Operations,
           UNCHANGED <<document, operation, refs>>,
           NEW visited \in SUBSET Node, Traversed(visited),
           Pending' \subseteq Pending,
           Pending \subseteq Pending' \cup visited
    PROVE  TraversalInv'
<1> DEFINE new == {}
<1>1. new \in SUBSET Node /\ new \subseteq Pending
    OBVIOUS
<1>2. refs' = (visited \cup new) \cap Name
    BY DEF Traversed
<1>3. Pending \subseteq Pending' \cup visited \cup new
    OBVIOUS
<1>4. \A m \in Pending' : m \in Pending \/ \E n \in new : m \in Followed(n)
    OBVIOUS
<1>5. \A n \in new : Followed(n) \subseteq Pending' \cup visited \cup new
    OBVIOUS
<1> HIDE DEF new
<1> QED
    BY <1>1, <1>2, <1>3, <1>4, <1>5, TraversalGoesOn

LEMMA BuildStep == SchemaInv /\ BuildOperationString => SchemaInv'
<1> SUFFICES ASSUME SchemaInv, BuildOperationString PROVE SchemaInv'
    OBVIOUS
<1> USE DEF SchemaInv, BuildOperationString
<1>1. stack = <<>> /\ refs = {} /\ stack' = <<>> /\ refs' = {}
    BY DEF Idle
<1>2. SchemaTypeOK'
    <2>1. operation'.parameters \in SUBSET Node
        BY SchemaAssumption DEF SchemaAssumption
    <2> QED
        BY <1>1, <2>1, SchemaAssumption DEF SchemaTypeOK, Phases, SchemaAssumption
<1>3. NilAlone' /\ Idle' /\ Busy'
    BY <1>1 DEF NilAlone, Idle, Busy
<1>4. Pending' = Roots'
    <2>1. Frames(stack)' = {}
        BY <1>1, NoFrame
    <2>2. Nil \notin operation'.parameters
        BY SchemaAssumption DEF SchemaAssumption
    <2> QED
        BY <2>1, <2>2 DEF Pending, Roots
<1>5. Roots' \subseteq Reached(FollowedBy, Roots)'
    <2>1. (document \in Documents /\ operation \in Operations
            => Roots \subseteq Reached(FollowedBy, Roots))'
        BY RootsAreReached, PTL
    <2> QED
        BY <2>1
<1>6. Traversed({})'
    BY <1>1, <1>4, <1>5 DEF Traversed
<1> QED
    BY <1>2, <1>3, <1>6 DEF TraversalInv

LEMMA ParameterStep == SchemaInv /\ ParameterRefs => SchemaInv'
<1> SUFFICES ASSUME SchemaInv, ParameterRefs PROVE SchemaInv'
    OBVIOUS
<1> USE DEF SchemaInv
<1>1. PICK p \in parameters : stack' = <<{p}>> /\ parameters' = parameters \ {p}
    BY DEF ParameterRefs
<1>2. /\ phase = "parameters" /\ stack = <<>>
      /\ UNCHANGED <<document, operation, phase, refs>>
    BY DEF ParameterRefs
<1>3. p \in Node /\ p # Nil
    BY SchemaAssumption DEF SchemaAssumption, SchemaTypeOK
<1>4. SchemaTypeOK'
    BY <1>1, <1>2, <1>3 DEF SchemaTypeOK
<1>5. NilAlone' /\ Idle' /\ Busy'
    BY <1>1, <1>2, <1>3, OneFrame DEF NilAlone, Idle, Busy
<1>6. Pending' = Pending
    <2>1. Frames(stack) = {} /\ Frames(stack') = {p}
        BY <1>1, <1>2, NoFrame, OneFrame
    <2>2. BodySchema' = BodySchema
        BY <1>2, SameReached
    <2> QED
        BY <1>1, <1>2, <2>1, <2>2 DEF Pending
<1>7. PICK visited \in SUBSET Node : Traversed(visited)
    BY <1>2 DEF TraversalInv
<1>8. document \in Documents /\ operation \in Operations
    BY <1>2 DEF Busy
<1>9. TraversalInv'
    BY <1>2, <1>6, <1>7, <1>8, TraversalWaits
<1> QED
    BY <1>4, <1>5, <1>9

LEMMA BodyStep == SchemaInv /\ RequestBodyRefs => SchemaInv'
<1> SUFFICES ASSUME SchemaInv, RequestBodyRefs PROVE SchemaInv'
    OBVIOUS
<1> USE DEF SchemaInv
<1>1. /\ phase = "parameters" /\ stack = <<>> /\ parameters = {}
      /\ phase' = "body"
      /\ stack' = IF BodySchema = {} THEN <<>> ELSE <<BodySchema>>
      /\ UNCHANGED <<document, operation, parameters, refs>>
    BY DEF RequestBodyRefs
<1>2. document \in Documents /\ operation \in Operations
    BY <1>1 DEF Busy
<1>3. /\ BodySchema \in SUBSET (Node \cup {Nil})
      /\ Nil \in BodySchema => BodySchema = {Nil}
    BY <1>2, BodyIsOneSchema
<1>4. SchemaTypeOK'
    <2>1. <<>> \in Seq(SUBSET (Node \cup {Nil})) /\ <<BodySchema>> \in Seq(SUBSET (Node \cup {Nil}))
        BY <1>3
    <2>2. stack' \in Seq(SUBSET (Node \cup {Nil}))
        BY <1>1, <2>1
    <2> QED
        BY <1>1, <2>2 DEF SchemaTypeOK, Phases
<1>5. NilAlone' /\ Idle' /\ Busy'
    BY <1>1, <1>2, <1>3, OneFrame DEF NilAlone, Idle, Busy
<1>6. Pending' = Pending
    <2>1. Frames(stack) = {} /\ Frames(stack') = BodySchema
        BY <1>1, NoFrame, OneFrame
    <2> QED
        BY <1>1, <2>1 DEF Pending
<1>7. PICK visited \in SUBSET Node : Traversed(visited)
    BY <1>1 DEF TraversalInv
<1>8. TraversalInv'
    BY <1>1, <1>2, <1>6, <1>7, TraversalWaits
<1> QED
    BY <1>4, <1>5, <1>8

\* What holds whenever there is a loop.
LEMMA InLoop ==
    ASSUME SchemaInv, stack # <<>>
    PROVE  /\ phase # "none"
           /\ document \in Documents /\ operation \in Operations
           /\ stack \in Seq(SUBSET (Node \cup {Nil}))
           /\ Len(stack) \in 1..Len(stack)
           /\ Top \in SUBSET (Node \cup {Nil})
           /\ Top \subseteq Frames(stack)
           /\ \E visited \in SUBSET Node : Traversed(visited)
<1>1. phase # "none" /\ stack \in Seq(SUBSET (Node \cup {Nil}))
    BY DEF SchemaInv, Idle, SchemaTypeOK
<1>2. Len(stack) \in 1..Len(stack) /\ stack[Len(stack)] \in SUBSET (Node \cup {Nil})
    BY <1>1, CallerFrames
<1>3. Top \subseteq Frames(stack)
    BY <1>2 DEF Top, Frames
<1> QED
    BY <1>1, <1>2, <1>3 DEF SchemaInv, Busy, TraversalInv, Top

\* A loop ends that has nothing to visit.
LEMMA EndStep == SchemaInv /\ (NilSchema \/ LoopEnds) => SchemaInv'
<1> SUFFICES ASSUME SchemaInv, NilSchema \/ LoopEnds PROVE SchemaInv'
    OBVIOUS
<1>1. /\ stack # <<>>
      /\ stack' = SubSeq(stack, 1, Len(stack) - 1)
      /\ UNCHANGED <<document, operation, parameters, phase, refs>>
    BY DEF NilSchema, LoopEnds, Caller
<1>2. /\ phase # "none"
      /\ document \in Documents /\ operation \in Operations
      /\ stack \in Seq(SUBSET (Node \cup {Nil}))
      /\ Len(stack) \in 1..Len(stack)
    BY <1>1, InLoop
<1>3. Top \subseteq {Nil}
    BY <1>2 DEF NilSchema, LoopEnds, SchemaInv, NilAlone, Top
<1>4. /\ stack' \in Seq(SUBSET (Node \cup {Nil}))
      /\ Len(stack') = Len(stack) - 1
      /\ \A k \in 1..Len(stack) - 1 : stack'[k] = stack[k]
      /\ Frames(stack) = Frames(stack') \cup Top
    BY <1>1, <1>2, CallerFrames DEF Top
<1>5. SchemaTypeOK'
    BY <1>1, <1>4 DEF SchemaInv, SchemaTypeOK
<1>6. NilAlone'
    <2>1. \A k \in 1..Len(stack') : k \in 1..Len(stack) /\ stack'[k] = stack[k]
        BY <1>2, <1>4
    <2> QED
        BY <2>1 DEF SchemaInv, NilAlone
<1>7. Idle' /\ Busy'
    BY <1>1, <1>2 DEF SchemaInv, Idle, Busy
<1>8. Pending' = Pending
    <2>1. BodySchema' = BodySchema
        BY <1>1, SameReached
    <2> QED
        BY <1>1, <1>3, <1>4, <2>1 DEF Pending
<1>9. PICK visited \in SUBSET Node : Traversed(visited)
    BY <1>1, InLoop
<1>10. TraversalInv'
    BY <1>1, <1>2, <1>8, <1>9, TraversalWaits
<1> QED
    BY <1>5, <1>6, <1>7, <1>10 DEF SchemaInv

\* A reference that is known has been visited.
LEMMA KnownStep == \A n \in Node : SchemaInv /\ KnownReference(n) => SchemaInv'
<1> SUFFICES ASSUME NEW n \in Node, SchemaInv, KnownReference(n) PROVE SchemaInv'
    OBVIOUS
<1>1. /\ stack # <<>>
      /\ n \in refs
      /\ stack' = [stack EXCEPT ![Len(stack)] = @ \ {n}]
      /\ UNCHANGED <<document, operation, parameters, phase, refs>>
    BY DEF KnownReference, Without
<1>2. /\ phase # "none"
      /\ document \in Documents /\ operation \in Operations
      /\ stack \in Seq(SUBSET (Node \cup {Nil}))
    BY <1>1, InLoop
<1>3. /\ stack' \in Seq(SUBSET (Node \cup {Nil}))
      /\ Len(stack') = Len(stack)
      /\ \A k \in 1..Len(stack) : stack'[k] \subseteq stack[k]
      /\ Frames(stack') \subseteq Frames(stack)
      /\ Frames(stack) \subseteq Frames(stack') \cup {n}
    BY <1>1, <1>2, WithoutFrames
<1>4. SchemaTypeOK'
    BY <1>1, <1>3 DEF SchemaInv, SchemaTypeOK
<1>5. NilAlone'
    BY <1>3 DEF SchemaInv, NilAlone
<1>6. Idle' /\ Busy'
    BY <1>1, <1>2 DEF SchemaInv, Idle, Busy
<1>7. PICK visited \in SUBSET Node : Traversed(visited)
    BY <1>1, InLoop
<1>8. n \in visited
    BY <1>1, <1>7 DEF Traversed
<1>9. Pending' \subseteq Pending /\ Pending \subseteq Pending' \cup visited
    <2>1. BodySchema' = BodySchema
        BY <1>1, SameReached
    <2> QED
        BY <1>1, <1>3, <1>8, <2>1 DEF Pending
<1>10. TraversalInv'
    BY <1>1, <1>2, <1>7, <1>9, TraversalWaits
<1> QED
    BY <1>4, <1>5, <1>6, <1>10 DEF SchemaInv

LEMMA VisitStep == \A n \in Node : SchemaInv /\ Visit(n) => SchemaInv'
<1> SUFFICES ASSUME NEW n \in Node, SchemaInv, Visit(n) PROVE SchemaInv'
    OBVIOUS
<1> DEFINE without == [stack EXCEPT ![Len(stack)] = @ \ {n}]
<1>1. /\ stack # <<>>
      /\ n \in Top
      /\ refs' = refs \cup ({n} \cap Name)
      /\ stack' = Append(without, Followed(n))
      /\ UNCHANGED <<document, operation, parameters, phase>>
    BY DEF Visit, Without
<1>2. /\ phase # "none"
      /\ document \in Documents /\ operation \in Operations
      /\ stack \in Seq(SUBSET (Node \cup {Nil}))
      /\ Top \subseteq Frames(stack)
    BY <1>1, InLoop
<1>3. Followed(n) \in SUBSET Node /\ Nil \notin Followed(n)
    BY <1>2, FollowedInNode, SchemaAssumption DEF SchemaAssumption
<1>4. /\ without \in Seq(SUBSET (Node \cup {Nil}))
      /\ Len(without) = Len(stack)
      /\ \A k \in 1..Len(stack) : without[k] \subseteq stack[k]
      /\ Frames(without) \subseteq Frames(stack)
      /\ Frames(stack) \subseteq Frames(without) \cup {n}
    BY <1>1, <1>2, WithoutFrames
<1> HIDE DEF without
<1>5. /\ stack' \in Seq(SUBSET (Node \cup {Nil}))
      /\ Len(stack') = Len(stack) + 1
      /\ \A k \in 1..Len(stack) : stack'[k] = without[k]
      /\ stack'[Len(stack) + 1] = Followed(n)
      /\ Frames(stack') = Frames(without) \cup Followed(n)
    <2>1. Followed(n) \in SUBSET (Node \cup {Nil})
        BY <1>3
    <2> DEFINE more == Append(without, Followed(n))
               all == Node \cup {Nil}
    <2>2. without \in Seq(SUBSET all) /\ Followed(n) \in SUBSET all
        BY <1>4, <2>1
    <2> HIDE DEF all
    <2>3. /\ more \in Seq(SUBSET all)
          /\ Len(more) = Len(without) + 1
          /\ \A k \in 1..Len(without) : more[k] = without[k]
          /\ more[Len(without) + 1] = Followed(n)
          /\ Frames(more) = Frames(without) \cup Followed(n)
        BY ONLY <2>2, AppendFrames
    <2>4. stack' = more
        BY <1>1
    <2> HIDE DEF more
    <2> QED
        BY <1>4, <2>3, <2>4 DEF all
<1>6. SchemaTypeOK'
    BY <1>1, <1>5 DEF SchemaInv, SchemaTypeOK
<1>7. NilAlone'
    <2> SUFFICES ASSUME NEW k \in 1..Len(stack'), Nil \in stack'[k] PROVE stack'[k] = {Nil}
        BY DEF NilAlone
    <2>1. k \in 1..Len(stack)
        <3>1. k \in 1..Len(stack) \/ k = Len(stack) + 1
            BY <1>2, <1>5
        <3> QED
            BY <1>3, <1>5, <3>1
    <2> QED
        BY <1>4, <1>5, <2>1 DEF SchemaInv, NilAlone
<1>8. Idle' /\ Busy'
    BY <1>1, <1>2 DEF SchemaInv, Idle, Busy
<1>9. PICK visited \in SUBSET Node : Traversed(visited)
    BY <1>1, InLoop
<1>10. TraversalInv'
    <2> DEFINE new == {n}
    <2>1. new \in SUBSET Node /\ new \subseteq Pending
        BY <1>1, <1>2, SchemaAssumption DEF Pending, SchemaAssumption
    <2>2. refs' = (visited \cup new) \cap Name
        BY <1>1, <1>9 DEF Traversed
    <2>3. BodySchema' = BodySchema
        BY <1>1, SameReached
    <2>4. Pending \subseteq Pending' \cup visited \cup new
        BY <1>1, <1>4, <1>5, <2>3 DEF Pending
    <2>5. \A m \in Pending' : m \in Pending \/ \E x \in new : m \in Followed(x)
        BY <1>1, <1>4, <1>5, <2>3 DEF Pending
    <2>6. \A x \in new : Followed(x) \subseteq Pending' \cup visited \cup new
        BY <1>3, <1>5 DEF Pending
    <2> HIDE DEF new
    <2> QED
        BY <1>1, <1>2, <1>9, <2>1, <2>2, <2>4, <2>5, <2>6, TraversalGoesOn
<1> QED
    BY <1>6, <1>7, <1>8, <1>10 DEF SchemaInv

LEMMA OperationStringStep == SchemaInv /\ OperationString => SchemaInv'
BY DEF SchemaInv, OperationString, SchemaTypeOK, NilAlone, Idle, Busy, TraversalInv, Phases

LEMMA SchemaInvariant == SchemaSpec => []SchemaInv
<1>1. SchemaInv /\ [SchemaNext]_schemaVars => SchemaInv'
    <2> SUFFICES ASSUME SchemaInv, [SchemaNext]_schemaVars PROVE SchemaInv'
        OBVIOUS
    <2>1. CASE BuildOperationString
        BY <2>1, BuildStep
    <2>2. CASE ParameterRefs
        BY <2>2, ParameterStep
    <2>3. CASE RequestBodyRefs
        BY <2>3, BodyStep
    <2>4. CASE NilSchema \/ LoopEnds
        BY <2>4, EndStep
    <2>5. CASE \E n \in Node : KnownReference(n) \/ Visit(n)
        BY <2>5, KnownStep, VisitStep
    <2>6. CASE OperationString
        BY <2>6, OperationStringStep
    <2>7. CASE UNCHANGED schemaVars
        <3>1. UNCHANGED <<document, operation, parameters, phase, stack, refs>>
            BY <2>7 DEF schemaVars
        <3>2. SchemaTypeOK' /\ NilAlone' /\ Idle' /\ Busy'
            BY <3>1 DEF SchemaInv, SchemaTypeOK, NilAlone, Idle, Busy
        <3>3. Pending' = Pending
            BY <3>1, SameReached DEF Pending, Frames
        <3>4. phase # "none" => document \in Documents /\ operation \in Operations
            BY DEF SchemaInv, Busy
        <3>5. TraversalInv'
            BY <3>1, <3>3, <3>4, TraversalWaits DEF SchemaInv, TraversalInv
        <3> QED
            BY <3>2, <3>5 DEF SchemaInv
    <2> QED
        BY <2>1, <2>2, <2>3, <2>4, <2>5, <2>6, <2>7 DEF SchemaNext, CollectRefs
<1> QED
    BY <1>1, InitSchemaInv, PTL DEF SchemaSpec

-----------------------------------------------------------------------------

\* Type correctness of the traversal, for all definitions and operations.
THEOREM SchemaTypeCorrect == SchemaSpec => []SchemaTypeOK
BY SchemaInvariant, PTL DEF SchemaInv

LEMMA InvCollectsExactly == SchemaInv => CollectedExactly
<1> SUFFICES ASSUME SchemaInv, Collected PROVE refs = Reached(FollowedBy, Roots) \cap Name
    BY DEF CollectedExactly
<1>1. /\ phase = "body" /\ stack = <<>>
      /\ document \in Documents /\ operation \in Operations
      /\ parameters = {}
    BY DEF Collected, SchemaInv, Busy
<1>2. Pending = {}
    BY <1>1, NoFrame DEF Pending
<1>3. PICK visited \in SUBSET Node : Traversed(visited)
    BY <1>1 DEF SchemaInv, TraversalInv
<1>4. /\ refs = visited \cap Name
      /\ visited \subseteq Reached(FollowedBy, Roots)
      /\ Roots \subseteq visited
      /\ \A n \in visited : Followed(n) \subseteq visited
    BY <1>2, <1>3 DEF Traversed
<1>5. Reached(FollowedBy, Roots) \subseteq visited
    BY <1>1, <1>4, ReachedWhileBusy
<1> QED
    BY <1>4, <1>5

\* getSchemasRef and its callers collect exactly the references that can be reached,
\* for any definition, with any cycles, and in any order of the loops.
THEOREM CollectsExactly == SchemaSpec => []CollectedExactly
BY SchemaInvariant, InvCollectsExactly, PTL

=============================================================================
