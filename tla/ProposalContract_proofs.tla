------------------------ MODULE ProposalContract_proofs ------------------------
(***************************************************************************)
(* Theorems about ProposalContract, for any documents, timestamps, amounts *)
(* and length of the run.  What depends on the decimal context takes its   *)
(* laws as a hypothesis about the amounts (Money: Canonical, Idempotent).  *)
(***************************************************************************)
EXTENDS ProposalContract, FiniteSetTheorems, TLAPS

(***************************************************************************)
(* The inductive invariant.                                                *)
(***************************************************************************)

\* Timestamps as they come to be written: those of a dump are in UTC.
Stamps == [local : Int, offset : Optional(Int)]

\* A document without the key has no deadline under it.
Deadlines == {[key |-> FALSE, stamp |-> {}]} \cup [key : {TRUE}, stamp : Optional(Stamps)]

\* A document, whatever its amount.
IsDocument(d) ==
    d \in [version : Tag, action : Action, amount : {d.amount}, float : BOOLEAN,
           about : About, created : Stamps, valid_until : Deadlines]

\* One document circulates, and at most two are read: what a first reader made of
\* it may be sent on once.
Circulation ==
    /\ now \in 0..Horizon
    /\ (\A d \in doc : IsDocument(d)) /\ IsFiniteSet(doc) /\ Cardinality(doc) <= 1
    /\ IsFiniteSet(proposal) /\ Cardinality(proposal) <= 1
    /\ IsFiniteSet(accepted) /\ Cardinality(accepted) <= 2
    /\ doc # {} => Cardinality(accepted) <= 1
    /\ IsFiniteSet(asked) /\ Cardinality(asked) <= 2

\* The record of a reading is of a document that passes, and of its digest.
AcceptedPass ==
    \A x \in accepted : IsDocument(x.doc) /\ Accepts(x.doc) /\ x.digest = Digest(Parse(x.doc))

\* A proposal was read from a document.
ProposalsAreRead == \A p \in proposal : \E d : IsDocument(d) /\ Accepts(d) /\ p = Parse(d)

\* An answer is about the deadline in the digest, at the time it was given.
AnswersAreOfDigests ==
    \A q \in asked :
        q.at \in Int /\ (q.expired <=> \E s \in q.digest.valid_until : q.at > s.local)

IInv == Circulation /\ AcceptedPass /\ ProposalsAreRead /\ AnswersAreOfDigests

(***************************************************************************)
(* Timestamps.                                                             *)
(***************************************************************************)

LEMMA StampFact ==
    ASSUME NEW s \in Stamps, Aware(s)
    PROVE  Utc(s) \in Int /\ Written(ToUtc(s)) \in Stamps /\ Aware(Written(ToUtc(s)))
           /\ ToUtc(Written(ToUtc(s))) = ToUtc(s) /\ Utc(Written(ToUtc(s))) = Utc(s)
<1>1. PICK o \in Int : s.offset = {o}
  BY DEF Stamps, Optional, Aware
<1>2. (CHOOSE u \in s.offset : TRUE) = o
  BY <1>1
<1>3. Utc(s) = s.local - o /\ s.local \in Int
  BY <1>2 DEF Utc, Stamps
<1>4. Utc(s) \in Int
  BY <1>3
<1> DEFINE w == Written(ToUtc(s))
<1>5. w = [local |-> Utc(s), offset |-> {0}]
  BY DEF Written, ToUtc
<1> HIDE DEF w
<1>6. w \in Stamps /\ Aware(w)
  BY <1>4, <1>5 DEF Stamps, Optional, Aware
<1>7. (CHOOSE u \in w.offset : TRUE) = 0
  BY <1>5
<1>8. Utc(w) = Utc(s)
  BY <1>4, <1>5, <1>7 DEF Utc
<1>9. ToUtc(w) = ToUtc(s)
  BY <1>8 DEF ToUtc
<1> QED BY <1>4, <1>6, <1>8, <1>9 DEF w

LEMMA WrittenStamps == Stamp \subseteq Stamps /\ Deadline \subseteq Deadlines
<1>1. Clock \subseteq Int /\ Offset \subseteq Int
  BY ClocksAssumption
<1>2. Optional(Offset) \subseteq Optional(Int)
  BY <1>1 DEF Optional
<1>3. Stamp \subseteq Stamps
  BY <1>1, <1>2 DEF Stamp, Stamps
<1>4. Optional(Stamp) \subseteq Optional(Stamps)
  BY <1>3 DEF Optional
<1> QED BY <1>3, <1>4 DEF Deadline, Deadlines

LEMMA WrittenDocuments == \A d \in Document : IsDocument(d)
  BY WrittenStamps DEF Document, IsDocument

LEMMA DeadlineForms ==
    ASSUME NEW v \in Deadlines
    PROVE  v.stamp \in Optional(Stamps) /\ (~v.key => v.stamp = {})
<1>1. CASE v = [key |-> FALSE, stamp |-> {}]
  <2>1. v.stamp = {}
    BY <1>1
  <2> QED BY <2>1 DEF Optional
<1>2. CASE v \in [key : {TRUE}, stamp : Optional(Stamps)]
  <2>1. v.key = TRUE /\ v.stamp \in Optional(Stamps)
    BY <1>2
  <2> QED BY <2>1
<1> QED BY <1>1, <1>2 DEF Deadlines

\* What a document that passes states about its times.
LEMMA PassingTimes ==
    ASSUME NEW d, IsDocument(d), Accepts(d)
    PROVE  /\ d.created \in Stamps /\ Aware(d.created)
           /\ d.valid_until.stamp \in SUBSET Stamps
           /\ \A s \in d.valid_until.stamp : Aware(s)
           /\ d.valid_until.stamp \in Optional(Stamps)
           /\ d.version = "1.0" => d.valid_until.stamp = {}
<1>1. d.created \in Stamps /\ d.valid_until \in Deadlines
  BY DEF IsDocument
<1>2. d.valid_until.stamp \in Optional(Stamps) /\ (~d.valid_until.key => d.valid_until.stamp = {})
  BY <1>1, DeadlineForms
<1>3. d.valid_until.stamp \in SUBSET Stamps
  BY <1>2 DEF Optional
<1>4. d.version = "1.0" => ~d.valid_until.key
  BY DEF Accepts, V1_0
<1> QED BY <1>1, <1>2, <1>3, <1>4 DEF Accepts, FieldsValid

LEMMA ParsedDeadline ==
    ASSUME NEW d, IsDocument(d), Accepts(d)
    PROVE  Parse(d).valid_until = {ToUtc(s) : s \in d.valid_until.stamp}
  BY PassingTimes DEF Parse

\* The deadline in the digest is the instant that was written.
LEMMA DeadlineInstants ==
    ASSUME NEW d, IsDocument(d), Accepts(d)
    PROVE  {s.local : s \in Parse(d).valid_until} = Instants(d)
<1>1. \A s : ToUtc(s).local = Utc(s)
  BY DEF ToUtc
<1> QED BY <1>1, ParsedDeadline DEF Instants

(***************************************************************************)
(* The canonical form of a proposal.                                       *)
(***************************************************************************)

\* The dump of what a document says: the same deadline, in UTC.
LEMMA DumpedDeadline ==
    ASSUME NEW d, IsDocument(d), Accepts(d)
    PROVE  LET v == Dump(Parse(d)).valid_until IN
           /\ v \in Deadlines
           /\ v.key = (d.version # "1.0")
           /\ v.stamp = {Written(ToUtc(s)) : s \in d.valid_until.stamp}
           /\ \A s \in v.stamp : Aware(s)
           /\ {ToUtc(s) : s \in v.stamp} = {ToUtc(s) : s \in d.valid_until.stamp}
<1> DEFINE v == Dump(Parse(d)).valid_until
           S == d.valid_until.stamp
<1>1. v = [key |-> d.version # "1.0", stamp |-> {Written(s) : s \in Parse(d).valid_until}]
  BY DEF Dump, Parse
<1>2. v.stamp = {Written(ToUtc(s)) : s \in S}
  BY <1>1, ParsedDeadline
<1>3. v.key = (d.version # "1.0")
  BY <1>1
<1>4. \A s \in S : Written(ToUtc(s)) \in Stamps /\ Aware(Written(ToUtc(s)))
                   /\ ToUtc(Written(ToUtc(s))) = ToUtc(s)
  BY PassingTimes, StampFact
<1>5. v.stamp \in Optional(Stamps)
  <2>1. S \in Optional(Stamps)
    BY PassingTimes
  <2>2. CASE S = {}
    BY <1>2, <2>2 DEF Optional
  <2>3. CASE \E s \in Stamps : S = {s}
    <3>1. PICK s \in Stamps : S = {s}
      BY <2>3
    <3>2. v.stamp = {Written(ToUtc(s))} /\ Written(ToUtc(s)) \in Stamps
      BY <1>2, <1>4, <3>1
    <3> QED BY <3>2 DEF Optional
  <2> QED BY <2>1, <2>2, <2>3 DEF Optional
<1>6. v \in Deadlines
  <2>1. CASE d.version = "1.0"
    <3>1. S = {}
      BY <2>1, PassingTimes
    <3>2. {Written(s) : s \in Parse(d).valid_until} = {}
      BY <3>1, ParsedDeadline
    <3>3. (d.version # "1.0") = FALSE
      BY <2>1
    <3>4. v = [key |-> FALSE, stamp |-> {}]
      BY <1>1, <3>2, <3>3
    <3> QED BY <3>4 DEF Deadlines
  <2>2. CASE d.version # "1.0"
    <3> DEFINE T == {Written(s) : s \in Parse(d).valid_until}
    <3>1. (d.version # "1.0") = TRUE
      BY <2>2
    <3>2. v = [key |-> TRUE, stamp |-> T]
      BY <1>1, <3>1
    <3>3. T \in Optional(Stamps)
      BY <1>1, <1>5
    <3> HIDE DEF v, T
    <3>4. v \in [key : {TRUE}, stamp : Optional(Stamps)]
      BY <3>2, <3>3
    <3> QED BY <3>4 DEF Deadlines
  <2> QED BY <2>1, <2>2
<1> HIDE DEF v
<1>7. {ToUtc(s) : s \in v.stamp} = {ToUtc(s) : s \in S}
  BY <1>2, <1>4
<1>8. \A s \in v.stamp : Aware(s)
  BY <1>2, <1>4
<1> QED BY <1>2, <1>3, <1>6, <1>7, <1>8 DEF v

LEMMA DumpIsDocument ==
    ASSUME NEW d, IsDocument(d), Accepts(d)
    PROVE  LET e == Dump(Parse(d)) IN
           /\ IsDocument(e) /\ e.version = d.version /\ e.action = d.action
           /\ e.amount = Normalize(d.amount) /\ e.about = d.about
           /\ ToUtc(e.created) = ToUtc(d.created) /\ Utc(e.created) = Utc(d.created)
           /\ ~e.float /\ Aware(e.created) /\ \A s \in e.valid_until.stamp : Aware(s)
<1> DEFINE e == Dump(Parse(d))
           v == e.valid_until
<1>1. /\ e = [version |-> d.version, action |-> d.action, amount |-> Normalize(d.amount),
              float |-> FALSE, about |-> d.about, created |-> Written(ToUtc(d.created)),
              valid_until |-> v]
  BY DEF Dump, Parse
<1>2. v \in Deadlines /\ \A s \in v.stamp : Aware(s)
  BY DumpedDeadline
<1>3. /\ Written(ToUtc(d.created)) \in Stamps /\ Aware(Written(ToUtc(d.created)))
      /\ ToUtc(Written(ToUtc(d.created))) = ToUtc(d.created)
      /\ Utc(Written(ToUtc(d.created))) = Utc(d.created)
  BY PassingTimes, StampFact
<1> HIDE DEF v
<1>4. d.version \in Tag /\ d.action \in Action /\ d.about \in About
  BY DEF IsDocument
<1>5. /\ e.version = d.version /\ e.action = d.action /\ e.amount = Normalize(d.amount)
      /\ e.float = FALSE /\ e.about = d.about /\ e.created = Written(ToUtc(d.created))
      /\ e.valid_until = v
  BY <1>1
<1>6. IsDocument(e)
  <2> DEFINE N == Normalize(d.amount)
             c == Written(ToUtc(d.created))
  <2>1. /\ e = [version |-> d.version, action |-> d.action, amount |-> N,
                float |-> FALSE, about |-> d.about, created |-> c, valid_until |-> v]
        /\ e.amount = N /\ c \in Stamps
    BY <1>1, <1>3, <1>5
  <2> HIDE DEF e, N, c
  <2> QED BY <1>2, <1>4, <2>1 DEF IsDocument
<1> HIDE DEF e
<1>7. ~e.float /\ Aware(e.created) /\ \A s \in e.valid_until.stamp : Aware(s)
  BY <1>2, <1>3, <1>5
<1> QED BY <1>3, <1>5, <1>6, <1>7 DEF e

\* If normalizing twice is normalizing once, the dump reads as the same proposal.
LEMMA DumpReadsAgain ==
    ASSUME NEW d, IsDocument(d), Accepts(d),
           Normalize(Normalize(d.amount)) = Normalize(d.amount)
    PROVE  Accepts(Dump(Parse(d))) /\ Parse(Dump(Parse(d))) = Parse(d)
<1> DEFINE e == Dump(Parse(d))
           v == e.valid_until
<1>1. /\ e.version = d.version /\ e.action = d.action
      /\ e.amount = Normalize(d.amount) /\ e.about = d.about
      /\ ToUtc(e.created) = ToUtc(d.created) /\ Utc(e.created) = Utc(d.created)
      /\ ~e.float /\ Aware(e.created) /\ \A s \in v.stamp : Aware(s)
  BY DumpIsDocument
<1>2. /\ v.key = (d.version # "1.0")
      /\ v.stamp = {Written(ToUtc(s)) : s \in d.valid_until.stamp}
      /\ {ToUtc(s) : s \in v.stamp} = {ToUtc(s) : s \in d.valid_until.stamp}
  BY DumpedDeadline
<1> HIDE DEF e
<1>f. FieldsValid(e)
  BY <1>1 DEF Accepts, FieldsValid
<1>3. \A s \in d.valid_until.stamp : Utc(Written(ToUtc(s))) = Utc(s)
  BY PassingTimes, StampFact
<1>4. CASE d.version = "1.0"
  <2>1. V1_0(d)
    BY <1>4 DEF Accepts
  <2>2. V1_0(e)
    BY <1>1, <1>2, <1>4, <2>1 DEF V1_0
  <2>3. Accepts(e)
    BY <1>1, <1>4, <1>f, <2>2 DEF Accepts
  <2>4. Parse(e) = Parse(d)
    BY <1>1, <1>4 DEF Parse
  <2> QED BY <2>3, <2>4 DEF e
<1>5. CASE d.version = "1.1"
  <2>1. V1_1(d)
    BY <1>5 DEF Accepts
  <2>2. ValueMoving(e) <=> ValueMoving(d)
    BY <1>1 DEF ValueMoving
  <2>3. \A s \in v.stamp : Utc(s) > Utc(e.created)
    BY <1>1, <1>2, <1>3, <2>1 DEF V1_1
  <2>4. V1_1(e)
    BY <1>1, <2>1, <2>2, <2>3 DEF V1_1
  <2>5. Accepts(e)
    BY <1>1, <1>5, <1>f, <2>4 DEF Accepts
  <2>6. Parse(e) = Parse(d)
    BY <1>1, <1>2, <1>5 DEF Parse
  <2> QED BY <2>5, <2>6 DEF e
<1>6. d.version = "1.0" \/ d.version = "1.1"
  BY DEF Accepts
<1> QED BY <1>4, <1>5, <1>6 DEF e

(***************************************************************************)
(* The invariant is inductive.                                             *)
(***************************************************************************)

LEMMA VariantsAreDocuments ==
    ASSUME NEW d, IsDocument(d), NEW v \in Variants(d)
    PROVE  IsDocument(v)
<1> USE DEF IsDocument
<1>1. CASE v = d
  BY <1>1
<1>2. CASE v = [d EXCEPT !.float = TRUE]
  BY <1>2
<1>3. ASSUME NEW x \in Tag, v = [d EXCEPT !.version = x] PROVE IsDocument(v)
  BY <1>3
<1>4. ASSUME NEW x \in Action, v = [d EXCEPT !.action = x] PROVE IsDocument(v)
  BY <1>4
<1>5. ASSUME NEW x \in Amount, v = [d EXCEPT !.amount = x] PROVE IsDocument(v)
  BY <1>5
<1>6. ASSUME NEW x \in About, v = [d EXCEPT !.about = x] PROVE IsDocument(v)
  BY <1>6
<1>7. ASSUME NEW x \in Stamp, v = [d EXCEPT !.created = x] PROVE IsDocument(v)
  BY <1>7, WrittenStamps
<1>8. ASSUME NEW x \in Deadline, v = [d EXCEPT !.valid_until = x] PROVE IsDocument(v)
  BY <1>8, WrittenStamps
<1> QED BY <1>1, <1>2, <1>3, <1>4, <1>5, <1>6, <1>7, <1>8 DEF Variants

LEMMA InitHolds == Init => IInv
<1> SUFFICES ASSUME Init PROVE IInv
  OBVIOUS
<1>1. IsFiniteSet({}) /\ Cardinality({}) = 0
  BY FS_EmptySet
<1> QED BY <1>1, ClocksAssumption
        DEF Init, IInv, Circulation, AcceptedPass, ProposalsAreRead, AnswersAreOfDigests

LEMMA OneElement ==
    ASSUME NEW x
    PROVE  IsFiniteSet({x}) /\ Cardinality({x}) = 1
  BY FS_Singleton

\* One element more.
LEMMA OneMore ==
    ASSUME NEW S, IsFiniteSet(S), NEW x
    PROVE  IsFiniteSet(S \cup {x}) /\ Cardinality(S \cup {x}) <= Cardinality(S) + 1
           /\ Cardinality(S) \in Nat /\ Cardinality(S \cup {x}) \in Nat
<1>1. Cardinality(S) \in Nat
  BY FS_CardinalityType
<1>2. CASE x \in S
  <2>1. S \cup {x} = S
    BY <1>2
  <2> QED BY <1>1, <2>1
<1>3. CASE x \notin S
  BY <1>1, <1>3, FS_AddElement
<1> QED BY <1>2, <1>3

LEMMA NextHolds == IInv /\ [Next]_vars => IInv'
<1> SUFFICES ASSUME IInv, [Next]_vars PROVE IInv'
  OBVIOUS
<1> USE DEF IInv
<1>e. IsFiniteSet({}) /\ Cardinality({}) = 0
  BY FS_EmptySet
<1>1. CASE UNCHANGED vars
  BY <1>1 DEF vars, Circulation, AcceptedPass, ProposalsAreRead, AnswersAreOfDigests
<1>2. ASSUME NEW d \in Document, Write(d) PROVE IInv'
  <2>1. IsDocument(d)
    BY WrittenDocuments
  <2>2. IsFiniteSet({d}) /\ Cardinality({d}) = 1
    BY OneElement
  <2>3. Circulation'
    BY <1>e, <1>2, <2>1, <2>2 DEF Write, Circulation
  <2> QED BY <1>2, <2>3 DEF Write, AcceptedPass, ProposalsAreRead, AnswersAreOfDigests
<1>3. CASE Read
  <2>1. PICK d \in doc :
          /\ IF Accepts(d)
             THEN /\ proposal' = {Parse(d)}
                  /\ accepted' = accepted \cup {[doc |-> d, digest |-> Digest(Parse(d))]}
             ELSE proposal' = {} /\ UNCHANGED accepted
          /\ doc' = {}
          /\ UNCHANGED <<now, asked>>
    BY <1>3 DEF Read
  <2>2. IsDocument(d) /\ Cardinality(accepted) <= 1 /\ IsFiniteSet(accepted)
    BY DEF Circulation
  <2>3. CASE Accepts(d)
    <3> DEFINE x == [doc |-> d, digest |-> Digest(Parse(d))]
    <3>1. proposal' = {Parse(d)} /\ accepted' = accepted \cup {x}
      BY <2>1, <2>3
    <3>2. x.doc = d /\ x.digest = Digest(Parse(d))
      OBVIOUS
    <3> HIDE DEF x
    <3>3. IsFiniteSet(accepted') /\ Cardinality(accepted') <= 2
      <4>1. /\ IsFiniteSet(accepted \cup {x}) /\ Cardinality(accepted) \in Nat
            /\ Cardinality(accepted \cup {x}) \in Nat
            /\ Cardinality(accepted \cup {x}) <= Cardinality(accepted) + 1
        BY <2>2, OneMore
      <4> QED BY <2>2, <3>1, <4>1
    <3>4. Circulation'
      <4>1. IsFiniteSet({Parse(d)}) /\ Cardinality({Parse(d)}) = 1
        BY OneElement
      <4>2. /\ IsFiniteSet(proposal') /\ Cardinality(proposal') <= 1
            /\ IsFiniteSet(doc') /\ Cardinality(doc') <= 1
        BY <1>e, <2>1, <3>1, <4>1
      <4> QED BY <2>1, <3>3, <4>2 DEF Circulation
    <3>5. AcceptedPass'
      BY <2>2, <2>3, <3>1, <3>2 DEF AcceptedPass
    <3>6. ProposalsAreRead'
      BY <2>2, <2>3, <3>1 DEF ProposalsAreRead
    <3> QED BY <2>1, <3>4, <3>5, <3>6 DEF AnswersAreOfDigests
  <2>4. CASE ~Accepts(d)
    BY <1>e, <2>1, <2>4
       DEF Circulation, AcceptedPass, ProposalsAreRead, AnswersAreOfDigests
  <2> QED BY <2>3, <2>4
<1>4. CASE Send
  <2>1. PICK p \in proposal : \E v \in Variants(Dump(p)) : doc' = {v}
    BY <1>4 DEF Send
  <2>2. PICK v \in Variants(Dump(p)) : doc' = {v}
    BY <2>1
  <2>3. PICK d : IsDocument(d) /\ Accepts(d) /\ p = Parse(d)
    BY DEF ProposalsAreRead
  <2>4. IsDocument(v)
    BY <2>3, DumpIsDocument, VariantsAreDocuments
  <2>5. Circulation'
    BY <1>e, <1>4, <2>2, <2>4, OneElement DEF Send, Circulation
  <2> QED BY <1>4, <2>5 DEF Send, AcceptedPass, ProposalsAreRead, AnswersAreOfDigests
<1>5. CASE Ask
  <2>1. PICK p \in proposal :
          asked' = asked \cup {[digest |-> Digest(p), at |-> now, expired |-> IsExpired(p)]}
    BY <1>5 DEF Ask
  <2> DEFINE q == [digest |-> Digest(p), at |-> now, expired |-> IsExpired(p)]
  <2>2. q.digest = p /\ q.at = now /\ q.expired = (\E s \in p.valid_until : now > s.local)
    BY DEF Digest, IsExpired
  <2>3. asked' = asked \cup {q} /\ Cardinality(asked) < 2
        /\ UNCHANGED <<now, doc, proposal, accepted>>
    BY <1>5, <2>1 DEF Ask
  <2> HIDE DEF q
  <2>4. IsFiniteSet(asked') /\ Cardinality(asked') <= 2
    <3>1. IsFiniteSet(asked)
      BY DEF Circulation
    <3>2. /\ IsFiniteSet(asked \cup {q}) /\ Cardinality(asked) \in Nat
          /\ Cardinality(asked \cup {q}) \in Nat
          /\ Cardinality(asked \cup {q}) <= Cardinality(asked) + 1
      BY <3>1, OneMore
    <3> QED BY <2>3, <3>2
  <2>5. now \in Int
    BY ClocksAssumption DEF Circulation
  <2>6. AnswersAreOfDigests'
    BY <2>2, <2>3, <2>5 DEF AnswersAreOfDigests
  <2> QED BY <2>3, <2>4, <2>6 DEF Circulation, AcceptedPass, ProposalsAreRead
<1>6. CASE Tick
  BY <1>6, ClocksAssumption
     DEF Tick, Circulation, AcceptedPass, ProposalsAreRead, AnswersAreOfDigests
<1> QED BY <1>1, <1>2, <1>3, <1>4, <1>5, <1>6 DEF Next

LEMMA Invariance == Spec => []IInv
  BY InitHolds, NextHolds, PTL DEF Spec

(***************************************************************************)
(* Theorems.                                                               *)
(***************************************************************************)

\* What a reader returns is of a version it knows, with an action it allows; one
\* document at a time circulates.
THEOREM TypeCorrect == Spec => []TypeOK
<1>1. IInv => TypeOK
  <2> SUFFICES ASSUME IInv PROVE TypeOK
    OBVIOUS
  <2>1. ASSUME NEW p \in proposal
        PROVE  /\ p.version \in Version /\ p.action \in Action
               /\ p.version = "1.0" => p.action # "transfer"
               /\ ValueMoving(p) /\ p.amount.coef = 0 => p.version = "1.0"
    <3>1. PICK d : IsDocument(d) /\ Accepts(d) /\ p = Parse(d)
      BY DEF IInv, ProposalsAreRead
    <3>2. p.version = d.version /\ p.action = d.action /\ p.amount = Normalize(d.amount)
      BY <3>1 DEF Parse
    <3>3. d.action \in Action
      BY <3>1 DEF IsDocument
    <3>4. ValueMoving(p) <=> ValueMoving(d)
      BY <3>2 DEF ValueMoving
    <3> QED BY <3>1, <3>2, <3>3, <3>4 DEF Accepts, V1_0, V1_1, Version
  <2> QED BY <2>1 DEF IInv, Circulation, TypeOK
<1> QED BY <1>1, Invariance, PTL

\* is_expired answers for the instant that was written, in whatever offset, and
\* never takes back that it has passed.
THEOREM DeadlineIsHonoured == Spec => []DeadlineHonoured
<1>1. IInv => DeadlineHonoured
  <2> SUFFICES ASSUME IInv, NEW q \in asked, NEW x \in accepted, x.digest = q.digest
               PROVE  q.expired <=> \E i \in Instants(x.doc) : q.at > i
    BY DEF DeadlineHonoured
  <2>1. q.expired <=> \E s \in q.digest.valid_until : q.at > s.local
    BY DEF IInv, AnswersAreOfDigests
  <2>2. IsDocument(x.doc) /\ Accepts(x.doc) /\ q.digest = Parse(x.doc)
    BY DEF IInv, AcceptedPass, Digest
  <2>3. {s.local : s \in q.digest.valid_until} = Instants(x.doc)
    BY <2>2, DeadlineInstants
  <2>4. (\E s \in q.digest.valid_until : q.at > s.local) <=> \E i \in Instants(x.doc) : q.at > i
    BY <2>3
  <2> QED BY <2>1, <2>4
<1> QED BY <1>1, Invariance, PTL

\* The amounts that come to be written: by somebody, or by a dump.
Amounts == Amount \cup {Normalize(a) : a \in Amount}

AmountsWritten ==
    /\ \A d \in doc : d.amount \in Amounts
    /\ \A x \in accepted : x.doc.amount \in Amounts
    /\ \A p \in proposal : \E a \in Amount : p.amount = Normalize(a)

LEMMA NormalAmounts ==
    ASSUME Idempotent(Amount), NEW a \in Amounts
    PROVE  \E b \in Amount : Normalize(a) = Normalize(b)
  BY DEF Idempotent, Amounts

\* A variant keeps the amount, or has one of those that are written.
LEMMA VariantAmounts ==
    ASSUME NEW d, IsDocument(d), d.amount \in Amounts, NEW v \in Variants(d)
    PROVE  v.amount \in Amounts
<1>1. \A x : /\ [d EXCEPT !.float = x].amount = d.amount
             /\ [d EXCEPT !.version = x].amount = d.amount
             /\ [d EXCEPT !.action = x].amount = d.amount
             /\ [d EXCEPT !.about = x].amount = d.amount
             /\ [d EXCEPT !.created = x].amount = d.amount
             /\ [d EXCEPT !.valid_until = x].amount = d.amount
             /\ [d EXCEPT !.amount = x].amount = x
  BY DEF IsDocument
<1>2. Amount \subseteq Amounts
  BY DEF Amounts
<1>3. CASE v = d \/ v = [d EXCEPT !.float = TRUE]
  BY <1>1, <1>3
<1>4. CASE \E x \in Tag : v = [d EXCEPT !.version = x]
  BY <1>1, <1>4
<1>5. CASE \E x \in Action : v = [d EXCEPT !.action = x]
  BY <1>1, <1>5
<1>6. CASE \E x \in Amount : v = [d EXCEPT !.amount = x]
  BY <1>1, <1>2, <1>6
<1>7. CASE \E x \in About : v = [d EXCEPT !.about = x]
  BY <1>1, <1>7
<1>8. CASE \E x \in Stamp : v = [d EXCEPT !.created = x]
  BY <1>1, <1>8
<1>9. CASE \E x \in Deadline : v = [d EXCEPT !.valid_until = x]
  BY <1>1, <1>9
<1> QED BY <1>3, <1>4, <1>5, <1>6, <1>7, <1>8, <1>9 DEF Variants

LEMMA AmountsInvariance ==
    ASSUME Idempotent(Amount) PROVE Spec => []AmountsWritten
<1>1. Init => AmountsWritten
  BY DEF Init, AmountsWritten
<1>2. IInv /\ AmountsWritten /\ [Next]_vars => AmountsWritten'
  <2> SUFFICES ASSUME IInv, AmountsWritten, [Next]_vars PROVE AmountsWritten'
    OBVIOUS
  <2>1. CASE UNCHANGED vars
    BY <2>1 DEF vars, AmountsWritten
  <2>2. ASSUME NEW d \in Document, Write(d) PROVE AmountsWritten'
    <3>1. d.amount \in Amounts
      BY DEF Document, Amounts
    <3> QED BY <2>2, <3>1 DEF Write, AmountsWritten
  <2>3. CASE Read
    <3>1. PICK d \in doc :
            /\ \/ /\ proposal' = {Parse(d)}
                  /\ accepted' = accepted \cup {[doc |-> d, digest |-> Digest(Parse(d))]}
               \/ proposal' = {} /\ UNCHANGED accepted
            /\ doc' = {}
      BY <2>3 DEF Read
    <3>2. d.amount \in Amounts
      BY DEF AmountsWritten
    <3>3. \E a \in Amount : Parse(d).amount = Normalize(a)
      BY <3>2, NormalAmounts DEF Parse
    <3> QED BY <3>1, <3>2, <3>3 DEF AmountsWritten
  <2>4. CASE Send
    <3>1. PICK p \in proposal : \E v \in Variants(Dump(p)) : doc' = {v}
      BY <2>4 DEF Send
    <3>2. PICK v \in Variants(Dump(p)) : doc' = {v}
      BY <3>1
    <3>3. IsDocument(Dump(p)) /\ Dump(p).amount \in Amounts
      <4>1. Dump(p).amount \in Amounts
        BY DEF AmountsWritten, Amounts, Dump
      <4> QED BY <4>1, DumpIsDocument DEF IInv, ProposalsAreRead
    <3>4. v.amount \in Amounts
      BY <3>3, VariantAmounts
    <3> QED BY <2>4, <3>2, <3>4 DEF Send, AmountsWritten
  <2>5. CASE Ask
    BY <2>5 DEF Ask, AmountsWritten
  <2>6. CASE Tick
    BY <2>6 DEF Tick, AmountsWritten
  <2> QED BY <2>1, <2>2, <2>3, <2>4, <2>5, <2>6 DEF Next
<1> QED BY <1>1, <1>2, Invariance, PTL DEF Spec

\* What was accepted once is accepted again in its canonical form, and keeps its
\* digest, if an amount normalized once is normal.
THEOREM CanonicalFormStaysReadable ==
    ASSUME Idempotent(Amount) PROVE Spec => []StaysReadable
<1>1. IInv /\ AmountsWritten => StaysReadable
  <2> SUFFICES ASSUME IInv, AmountsWritten, NEW p \in proposal
               PROVE  Accepts(Dump(p)) /\ Digest(Parse(Dump(p))) = Digest(p)
    BY DEF StaysReadable
  <2>1. PICK d : IsDocument(d) /\ Accepts(d) /\ p = Parse(d)
    BY DEF IInv, ProposalsAreRead
  <2>2. PICK a \in Amount : p.amount = Normalize(a)
    BY DEF AmountsWritten
  <2>3. Normalize(Normalize(d.amount)) = Normalize(d.amount)
    BY <2>1, <2>2 DEF Parse, Idempotent
  <2> QED BY <2>1, <2>3, DumpReadsAgain DEF Digest
<1> QED BY <1>1, Invariance, AmountsInvariance, PTL

\* Two digests are equal just if the documents mean the same, if two amounts have
\* one normal form just if they are the same quantity.
THEOREM DigestsAreMeanings ==
    ASSUME Idempotent(Amount), Canonical(Amounts) PROVE Spec => []DigestIsMeaning
<1>1. IInv /\ AmountsWritten => DigestIsMeaning
  <2> SUFFICES ASSUME IInv, AmountsWritten, NEW x \in accepted, NEW y \in accepted
               PROVE  x.digest = y.digest <=> SameMeaning(x.doc, y.doc)
    BY DEF DigestIsMeaning
  <2> DEFINE d == x.doc
             e == y.doc
             D == Parse(d)
             E == Parse(e)
  <2>1. /\ IsDocument(d) /\ Accepts(d) /\ x.digest = D
        /\ IsDocument(e) /\ Accepts(e) /\ y.digest = E
    BY DEF IInv, AcceptedPass, Digest
  <2>2. D.amount = E.amount <=> SameValue(d.amount, e.amount)
    BY DEF AmountsWritten, Canonical, Parse
  <2>3. D.created = E.created <=> Utc(d.created) = Utc(e.created)
    BY DEF Parse, ToUtc
  <2>4. D.valid_until = E.valid_until <=> Instants(d) = Instants(e)
    <3>1. {s.local : s \in D.valid_until} = Instants(d)
          /\ {s.local : s \in E.valid_until} = Instants(e)
      BY <2>1, DeadlineInstants
    <3>2. D.valid_until = {[local |-> i, offset |-> 0] : i \in Instants(d)}
      BY <2>1, ParsedDeadline DEF Instants, ToUtc
    <3>3. E.valid_until = {[local |-> i, offset |-> 0] : i \in Instants(e)}
      BY <2>1, ParsedDeadline DEF Instants, ToUtc
    <3> HIDE DEF D, E, d, e
    <3> QED BY <3>1, <3>2, <3>3
  <2>5. D = E <=> /\ D.version = E.version /\ D.action = E.action /\ D.amount = E.amount
                  /\ D.about = E.about /\ D.created = E.created
                  /\ D.valid_until = E.valid_until
    BY DEF Parse
  <2>6. /\ D.version = d.version /\ D.action = d.action /\ D.about = d.about
        /\ E.version = e.version /\ E.action = e.action /\ E.about = e.about
    BY DEF Parse
  <2> HIDE DEF D, E
  <2> QED BY <2>1, <2>2, <2>3, <2>4, <2>5, <2>6 DEF SameMeaning
<1> QED BY <1>1, Invariance, AmountsInvariance, PTL
=============================================================================
