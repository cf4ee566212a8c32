--------------------------- MODULE ProposalContract ---------------------------
(***************************************************************************)
(* The document the two domains exchange: contracts/proposal.py            *)
(* (ProposalV1_0, ProposalV1_1, parse_proposal, is_expired) and            *)
(* contracts/canonical.py (canonical_json, canonical_hash).                *)
(*                                                                         *)
(* A document is written, read into a proposal, dumped in canonical form,  *)
(* perhaps changed on its way, and read again, at any time.  The fields    *)
(* that both versions treat alike (id, asset, label, reasoning, evidence)  *)
(* are one value, "about".  The digest is a free constructor: equal        *)
(* digests mean equal canonical forms.                                     *)
(***************************************************************************)
EXTENDS Money, FiniteSets

CONSTANTS
    Action,         \* the actions that documents name
    Amount,         \* amounts as written
    About,          \* the text of a document
    Clock,          \* clock readings that documents state
    Offset,         \* their offsets from UTC
    Horizon         \* bound: when the model's time stops

ASSUME ActionAssumption == Action \subseteq {"buy", "sell", "hold", "alert", "transfer"}
ASSUME AmountAssumption == Amount \subseteq [coef : Int, exp : Int]
ASSUME ClocksAssumption == Clock \subseteq Nat /\ Offset \subseteq Nat /\ Horizon \in Nat

\* At most one element of S: a field that may be missing.
Optional(S) == {{}} \cup {{s} : s \in S}

\* A timestamp as written; without an offset it is naive.
Stamp == [local : Clock, offset : Optional(Offset)]

Deadline == {[key |-> FALSE, stamp |-> {}]} \cup [key : {TRUE}, stamp : Optional(Stamp)]

\* The versions that can be read.
Version == {"1.0", "1.1"}

Tag == Version \cup {"none", "2.0"}

Document == [version : Tag, action : Action, amount : Amount,
             float : BOOLEAN, about : About,
             created : Stamp, valid_until : Deadline]

-----------------------------------------------------------------------------
\* Reading.

Aware(stamp) == stamp.offset # {}

Utc(stamp) == stamp.local - (CHOOSE o \in stamp.offset : TRUE)

\* A plausible slip: the offset is kept as it is written.
ToUtc_Kept(stamp) == [local |-> stamp.local, offset |-> CHOOSE o \in stamp.offset : TRUE]

\* _to_utc: one representation for an instant.
ToUtc(stamp) == [local |-> Utc(stamp), offset |-> 0]

\* What the fields of either version ask of a document.
FieldsValid(d) ==
    /\ ~d.float
    /\ Normalize(d.amount).coef >= 0
    /\ Aware(d.created)
    /\ \A s \in d.valid_until.stamp : Aware(s)

\* A plausible slip: 1.0 ignores what it does not know.
V1_0_ExtraIgnored(d) == d.action # "transfer"

\* ProposalV1_0: no transfer, and no field of a later version.
V1_0(d) == d.action # "transfer" /\ ~d.valid_until.key

ValueMoving(d) == d.action \in {"buy", "sell", "transfer"}

\* ProposalV1_1: a floor for the actions that move value, and a deadline that
\* comes after the creation.
V1_1(d) ==
    /\ ValueMoving(d) => Normalize(d.amount).coef # 0
    /\ \A s \in d.valid_until.stamp : Utc(s) > Utc(d.created)

-----------------------------------------------------------------------------
VARIABLES
    now,
    doc,            \* the document in circulation, {} if there is none
    proposal,       \* what the reader made of it
    accepted,       \* history: the documents read, and their digests
    asked           \* history: the answers of is_expired

vars == <<now, doc, proposal, accepted, asked>>

\* A plausible slip: a deadline that has passed is refused when it is read.
Accepts_Fresh(d) ==
    /\ FieldsValid(d)
    /\ CASE d.version = "1.0" -> V1_0(d)
         [] d.version = "1.1" -> V1_1(d) /\ \A s \in d.valid_until.stamp : Utc(s) >= now
         [] OTHER -> FALSE

\* parse_proposal: by the version the document states, and by no other.
Accepts(d) ==
    /\ FieldsValid(d)
    /\ \/ d.version = "1.0" /\ V1_0(d)
       \/ d.version = "1.1" /\ V1_1(d)

\* The model instance: normalized, in UTC; only 1.1 has the field.
Parse(d) ==
    [version |-> d.version, action |-> d.action, amount |-> Normalize(d.amount),
     about |-> d.about, created |-> ToUtc(d.created),
     valid_until |-> IF d.version = "1.0" THEN {} ELSE {ToUtc(s) : s \in d.valid_until.stamp}]

\* canonical_hash covers every serialized field.
Digest(p) == p

\* A plausible slip: the moment of the deadline is too late already.
IsExpired_AtDeadline(p) == \E s \in p.valid_until : now >= s.local

\* is_expired, now.
IsExpired(p) == \E s \in p.valid_until : now > s.local

\* canonical_json: every field of the version, explicit nulls, UTC.
Written(stamp) == [local |-> stamp.local, offset |-> {stamp.offset}]

Dump(p) ==
    [version |-> p.version, action |-> p.action, amount |-> p.amount, float |-> FALSE,
     about |-> p.about, created |-> Written(p.created),
     valid_until |-> [key |-> p.version # "1.0", stamp |-> {Written(s) : s \in p.valid_until}]]

\* What a document can turn into on its way: itself, other spellings of it, and
\* one other value of one field.
Variants(d) ==
    {d, [d EXCEPT !.float = TRUE]}
    \cup {[d EXCEPT !.version = v] : v \in Tag}
    \cup {[d EXCEPT !.action = a] : a \in Action}
    \cup {[d EXCEPT !.amount = a] : a \in Amount}
    \cup {[d EXCEPT !.about = t] : t \in About}
    \cup {[d EXCEPT !.created = s] : s \in Stamp}
    \cup {[d EXCEPT !.valid_until = v] : v \in Deadline}

TypeOK ==
    /\ now \in 0..Horizon
    /\ Cardinality(doc) <= 1 /\ Cardinality(proposal) <= 1
    /\ \A p \in proposal : p.version \in Version /\ p.action \in Action
    /\ \A p \in proposal : p.version = "1.0" => p.action # "transfer"
    /\ \A p \in proposal : ValueMoving(p) /\ p.amount.coef = 0 => p.version = "1.0"
    /\ Cardinality(accepted) <= 2 /\ Cardinality(asked) <= 2

Init == now = 0 /\ doc = {} /\ proposal = {} /\ accepted = {} /\ asked = {}

\* Somebody writes a document.
Write(d) ==
    /\ doc = {} /\ accepted = {}
    /\ doc' = {d}
    /\ UNCHANGED <<now, proposal, accepted, asked>>

\* parse_proposal of the document in circulation; a refused one leaves nothing.
Read ==
    \E d \in doc :
        /\ IF Accepts(d)
           THEN /\ proposal' = {Parse(d)}
                /\ accepted' = accepted \cup {[doc |-> d, digest |-> Digest(Parse(d))]}
           ELSE proposal' = {} /\ UNCHANGED accepted
        /\ doc' = {}
        /\ UNCHANGED <<now, asked>>

\* The proposal is sent on, or stored, in its canonical form.
Send ==
    /\ doc = {} /\ Cardinality(accepted) = 1
    /\ \E p \in proposal : \E v \in Variants(Dump(p)) : doc' = {v}
    /\ proposal' = {}
    /\ UNCHANGED <<now, accepted, asked>>

Ask ==
    /\ Cardinality(asked) < 2
    /\ \E p \in proposal :
         asked' = asked \cup {[digest |-> Digest(p), at |-> now, expired |-> IsExpired(p)]}
    /\ UNCHANGED <<now, doc, proposal, accepted>>

Tick ==
    /\ now < Horizon
    /\ now' = now + 1
    /\ UNCHANGED <<doc, proposal, accepted, asked>>

Next == (\E d \in Document : Write(d)) \/ Read \/ Send \/ Ask \/ Tick

Spec == Init /\ [][Next]_vars

-----------------------------------------------------------------------------
\* Properties.

Instants(d) == {Utc(s) : s \in d.valid_until.stamp}

\* What a reader of two documents would call the same proposal.
SameMeaning(d, e) ==
    /\ d.version = e.version /\ d.action = e.action /\ d.about = e.about
    /\ SameValue(d.amount, e.amount)
    /\ Utc(d.created) = Utc(e.created)
    /\ Instants(d) = Instants(e)

\* Proposals equal in meaning hash identically, however they are spelled, and no
\* two others do: not across versions, and not by dropping a field.
DigestIsMeaning ==
    \A x \in accepted, y \in accepted :
        x.digest = y.digest <=> SameMeaning(x.doc, y.doc)

\* A proposal that was accepted once stays readable for ever, in its canonical
\* form, and reads as the same proposal: digests keep reproducing.
StaysReadable ==
    \A p \in proposal : Accepts(Dump(p)) /\ Digest(Parse(Dump(p))) = Digest(p)

\* is_expired says that a stated deadline has passed, neither more nor less,
\* whichever spelling the deadline came in: what is stale never gets fresh again.
DeadlineHonoured ==
    \A q \in asked : \A x \in accepted :
        x.digest = q.digest => (q.expired <=> \E i \in Instants(x.doc) : q.at > i)
=============================================================================
