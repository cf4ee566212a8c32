------------------------- MODULE ApprovalToken_proofs -------------------------
(***************************************************************************)
(* Theorems about ApprovalToken, for any proposals, recipients and         *)
(* amounts, and any lengths of the window, the skew and the run.           *)
(***************************************************************************)
EXTENDS ApprovalToken, FiniteSetTheorems, TLAPS

(***************************************************************************)
(* What verify returns.                                                    *)
(***************************************************************************)

LEMMA ChecksAre ==
    /\ DOMAIN Checks = 1..10
    /\ Checks[1] = "unknown_scheme" /\ Checks[2] = "malformed" /\ Checks[3] = "bad_signature"
    /\ Checks[4] = "claims_invalid" /\ Checks[5] = "proposal_mismatch"
    /\ Checks[6] = "amount_mismatch" /\ Checks[7] = "recipient_mismatch"
    /\ Checks[8] = "window_too_long" /\ Checks[9] = "not_yet_valid" /\ Checks[10] = "expired"
  BY DEF Checks

LEMMA Positions ==
    ASSUME NEW i \in 1..10
    PROVE  \/ i = 1 \/ i = 2 \/ i = 3 \/ i = 4 \/ i = 5
           \/ i = 6 \/ i = 7 \/ i = 8 \/ i = 9 \/ i = 10
  OBVIOUS

\* A non-empty set of positions has a first.
LEMMA FirstExists ==
    ASSUME NEW S \in SUBSET (1..10), S # {}
    PROVE  Min(S) \in S /\ \A i \in S : Min(S) <= i
<1> DEFINE Below(n) == \A i \in S : n <= i
<1>1. Below(1)
  OBVIOUS
<1>2. ASSUME NEW n \in 1..9, Below(n), n \notin S PROVE Below(n + 1)
  BY <1>2
<1>3. (\E k \in S : Below(k)) \/ Below(10)
  <2> SUFFICES ASSUME \A k \in S : ~Below(k) PROVE Below(10)
    OBVIOUS
  <2>1. ASSUME NEW n \in 1..9, Below(n) PROVE Below(n + 1)
    BY <1>2, <2>1
  <2> HIDE DEF Below
  <2>2. Below(2) /\ Below(3) /\ Below(4)
    <3>1. Below(2)
      BY <1>1, <2>1
    <3>2. Below(3)
      BY <3>1, <2>1
    <3> QED BY <3>1, <3>2, <2>1
  <2>3. Below(5) /\ Below(6) /\ Below(7)
    <3>1. Below(5)
      BY <2>2, <2>1
    <3>2. Below(6)
      BY <3>1, <2>1
    <3> QED BY <3>1, <3>2, <2>1
  <2>4. Below(8) /\ Below(9)
    <3>1. Below(8)
      BY <2>3, <2>1
    <3> QED BY <3>1, <2>1
  <2> QED BY <2>4, <2>1
<1>4. \E k \in S : Below(k)
  <2>1. ASSUME Below(10) PROVE \E k \in S : Below(k)
    <3>1. PICK x \in S : TRUE
      OBVIOUS
    <3>2. x = 10
      BY <2>1
    <3> QED BY <2>1, <3>1, <3>2
  <2> QED BY <1>3, <2>1
<1> QED BY <1>4 DEF Min

\* verify reports the first check that fails.
LEMMA VerifyReports ==
    ASSUME NEW t, NEW b, NEW at
    PROVE  \/ /\ Verify(t, b, at) = "verified"
              /\ \A i \in 1..10 : ~Fails(Checks[i], t, b, at)
           \/ \E k \in 1..10 : /\ Verify(t, b, at) = Checks[k]
                               /\ Fails(Checks[k], t, b, at)
                               /\ \A i \in 1..10 : i < k => ~Fails(Checks[i], t, b, at)
<1> DEFINE failing == {i \in DOMAIN Checks : Fails(Checks[i], t, b, at)}
<1>1. failing \in SUBSET (1..10)
  BY ChecksAre
<1>2. Verify(t, b, at) = IF failing = {} THEN "verified" ELSE Checks[Min(failing)]
  BY DEF Verify
<1>3. \A i \in 1..10 : i \in failing <=> Fails(Checks[i], t, b, at)
  BY ChecksAre
<1> HIDE DEF failing
<1>4. CASE failing = {}
  BY <1>2, <1>3, <1>4
<1>5. CASE failing # {}
  <2>1. Min(failing) \in failing /\ \A i \in failing : Min(failing) <= i
    BY <1>1, <1>5, FirstExists
  <2>2. Verify(t, b, at) = Checks[Min(failing)]
    BY <1>2, <1>5
  <2>3. \A i \in 1..10 : i < Min(failing) => i \notin failing
    <3>1. ASSUME NEW i \in 1..10, i < Min(failing) PROVE i \notin failing
      <4>1. i \in Int /\ Min(failing) \in Int
        <5>1. Min(failing) \in 1..10
          BY <1>1, <2>1
        <5> QED BY <5>1
      <4>2. ~(Min(failing) <= i)
        BY <3>1, <4>1
      <4> QED BY <2>1, <4>2
    <3> QED BY <3>1
  <2> QED BY <1>1, <1>3, <2>1, <2>2, <2>3
<1> QED BY <1>4, <1>5

\* A token is verified exactly if it passes every check.
LEMMA VerifiedMeans ==
    ASSUME NEW t, NEW b, NEW at
    PROVE  Verify(t, b, at) = "verified" <=>
             /\ t.scheme = TOKEN_SCHEME /\ Decodes(t) /\ Authentic(t) /\ ClaimsValid(t.payload)
             /\ t.payload.proposal = b.proposal /\ AmountMatches(t.payload, b)
             /\ t.payload.recipient = b.recipient
             /\ ~WindowTooLong(t.payload) /\ ~NotYetValid(t.payload, at)
             /\ ~Expired(t.payload, at)
<1>1. \A i \in 1..10 : Checks[i] # "verified"
  BY ChecksAre, Positions
<1>2. Verify(t, b, at) = "verified" <=> \A i \in 1..10 : ~Fails(Checks[i], t, b, at)
  BY <1>1, VerifyReports
<1>3. (\A i \in 1..10 : ~Fails(Checks[i], t, b, at)) <=>
        /\ ~Fails(Checks[1], t, b, at) /\ ~Fails(Checks[2], t, b, at)
        /\ ~Fails(Checks[3], t, b, at) /\ ~Fails(Checks[4], t, b, at)
        /\ ~Fails(Checks[5], t, b, at) /\ ~Fails(Checks[6], t, b, at)
        /\ ~Fails(Checks[7], t, b, at) /\ ~Fails(Checks[8], t, b, at)
        /\ ~Fails(Checks[9], t, b, at) /\ ~Fails(Checks[10], t, b, at)
  BY Positions
<1> QED BY <1>2, <1>3, ChecksAre DEF Fails, Splits, Decodes

\* What is refused for a later reason than the seal has its seal.
LEMMA LateReasonIsAuthentic ==
    ASSUME NEW t, NEW b, NEW at,
           Verify(t, b, at) \notin {"unknown_scheme", "malformed", "bad_signature"}
    PROVE  Authentic(t)
<1>1. ~Fails(Checks[3], t, b, at)
  <2>1. CASE \A i \in 1..10 : ~Fails(Checks[i], t, b, at)
    BY <2>1
  <2>2. ASSUME NEW k \in 1..10, Verify(t, b, at) = Checks[k],
               \A i \in 1..10 : i < k => ~Fails(Checks[i], t, b, at)
        PROVE  ~Fails(Checks[3], t, b, at)
    <3>1. k # 1 /\ k # 2 /\ k # 3
      BY <2>2, ChecksAre
    <3> QED BY <2>2, <3>1
  <2> QED BY <2>1, <2>2, VerifyReports
<1> QED BY <1>1, ChecksAre DEF Fails

(***************************************************************************)
(* The inductive invariant.                                                *)
(***************************************************************************)

\* The token in circulation was sealed over claims for what was written.
Issued ==
    /\ written \subseteq Amount
    /\ \A t, u \in token : t = u
    /\ \A t \in token : t.payload \in Claims /\ t = Sealed(t.payload)
    /\ \A t \in token : \A a \in written : t.payload.amount = Normalize(a)
    /\ minted => \A t \in token : Mintable(t.payload) /\ t.payload.issued <= clock

\* A result on the caller's desk is what verify says of a variant of the token, by
\* a clock that lags no more than it may.
Presented ==
    /\ \A x, y \in last : x = y
    /\ \A x \in last :
        /\ \E t \in token : x.token \in Variants(t)
        /\ x.binding \in Binding /\ x.at \in Time /\ clock - CLOCK_SKEW <= x.at
        /\ x.result = Verify(x.token, x.binding, x.at)

\* Whatever was accepted was within its window then, by the caller's clock.
AcceptedInWindow ==
    \A x \in accepted :
        /\ x.at \in Time /\ x.token.payload \in Claims
        /\ ~WindowTooLong(x.token.payload)
        /\ ~NotYetValid(x.token.payload, x.at) /\ ~Expired(x.token.payload, x.at)

IInv == clock \in Time /\ Issued /\ Presented /\ AcceptedInWindow

(***************************************************************************)
(* The invariant is inductive.                                             *)
(***************************************************************************)

LEMMA ClaimType ==
    ASSUME NEW p \in Proposal, NEW a \in Amount, NEW r \in Recipient, NEW i \in Time, NEW e \in Time
    PROVE  Claim(p, a, r, i, e) \in Claims /\ Claim(p, a, r, i, e).amount = Normalize(a)
  BY DEF Claim, Claims

\* Of all that a token can turn into, only the token itself is authentic.
LEMMA OnlyTheToken ==
    ASSUME NEW c \in Claims, NEW v \in Variants(Sealed(c)),
           v.scheme = TOKEN_SCHEME, Decodes(v), Authentic(v)
    PROVE  v = Sealed(c)
<1> DEFINE t == Sealed(c)
<1>1. t = [scheme |-> TOKEN_SCHEME, payload |-> c, spelling |-> "canonical",
           seal |-> Mac(TOKEN_SCHEME, c)]
  BY DEF Sealed
<1>2. CASE v = [t EXCEPT !.scheme = "hodlin-auth-v2"]
  BY <1>1, <1>2 DEF TOKEN_SCHEME
<1>3. CASE v = [t EXCEPT !.spelling = "other"] \/ v = [t EXCEPT !.spelling = "garbled"]
  BY <1>1, <1>3 DEF Decodes
<1>7. CASE v = [t EXCEPT !.spelling = "cut"]
  BY <1>1, <1>7 DEF Decodes
<1>4. CASE v = [t EXCEPT !.seal = Unsealed]
  <2>1. v.seal = Unsealed /\ v.seal.scheme = v.scheme
    BY <1>1, <1>4 DEF Authentic, Mac
  <2> QED BY <2>1 DEF Unsealed, TOKEN_SCHEME
<1>5. ASSUME NEW d, v = [t EXCEPT !.payload = d] PROVE v = t
  <2>1. v.seal = Mac(TOKEN_SCHEME, c) /\ v.payload = d /\ v.scheme = TOKEN_SCHEME
    BY <1>1, <1>5
  <2>2. Mac(TOKEN_SCHEME, c) = Mac(TOKEN_SCHEME, d)
    BY <2>1 DEF Authentic
  <2>3. c = d
    BY <2>2 DEF Mac
  <2> QED BY <1>1, <1>5, <2>3
<1>6. \/ v = t \/ v = [t EXCEPT !.scheme = "hodlin-auth-v2"]
      \/ v = [t EXCEPT !.spelling = "other"] \/ v = [t EXCEPT !.spelling = "garbled"]
      \/ v = [t EXCEPT !.spelling = "cut"] \/ v = [t EXCEPT !.seal = Unsealed]
      \/ \E d : v = [t EXCEPT !.payload = d]
  BY <1>1 DEF Variants
<1> QED BY <1>2, <1>3, <1>4, <1>5, <1>6, <1>7

LEMMA IInvInit == Init => IInv
  BY TimesAssumption DEF Init, IInv, Issued, Presented, AcceptedInWindow, Time

\* A fresh token, of any code that holds the secret.
LEMMA FreshToken ==
    ASSUME IInv, token = {}, NEW a \in Amount, NEW p \in Proposal, NEW r \in Recipient,
           NEW i \in Time, NEW e \in Time,
           token' = {Sealed(Claim(p, a, r, i, e))}, written' = {a},
           minted' => Mintable(Claim(p, a, r, i, e)) /\ i <= clock,
           UNCHANGED <<clock, last, accepted>>
    PROVE  IInv'
<1> DEFINE c == Claim(p, a, r, i, e)
<1>1. c \in Claims /\ c.amount = Normalize(a) /\ c.issued = i
  BY ClaimType DEF Claim
<1>2. Sealed(c).payload = c
  BY DEF Sealed
<1>3. token' = {Sealed(c)} /\ (minted' => Mintable(c) /\ c.issued <= clock')
  BY <1>1
<1> HIDE DEF c
<1>4. Issued'
  BY <1>1, <1>2, <1>3 DEF Issued
<1>5. last = {}
  BY DEF IInv, Presented
<1> QED BY <1>4, <1>5 DEF IInv, Presented, AcceptedInWindow

LEMMA IInvNext == IInv /\ [Next]_vars => IInv'
<1> SUFFICES ASSUME IInv, [Next]_vars PROVE IInv'
  OBVIOUS
<1>1. CASE UNCHANGED vars
  BY <1>1 DEF vars, IInv, Issued, Presented, AcceptedInWindow
<1>2. ASSUME NEW a \in Amount, Mint(a) PROVE IInv'
  <2>1. PICK p \in Proposal, r \in Recipient, e \in Time :
          /\ Mintable(Claim(p, a, r, clock, e)) /\ token' = {Sealed(Claim(p, a, r, clock, e))}
    BY <1>2 DEF Mint
  <2>2. clock \in Time /\ clock <= clock
    BY DEF IInv, Time
  <2> QED BY <1>2, <2>1, <2>2, FreshToken DEF Mint
<1>3. ASSUME NEW a \in Amount, IssuedElsewhere(a) PROVE IInv'
  BY <1>3, FreshToken DEF IssuedElsewhere
<1>4. ASSUME NEW t \in token, NEW v \in Variants(t), NEW b \in Binding, NEW at \in Time,
             Present(v, b, at)
      PROVE  IInv'
  <2> DEFINE result == Verify(v, b, at)
             x == [token |-> v, binding |-> b, at |-> at, result |-> result]
  <2>1. last' = {x} /\ clock - CLOCK_SKEW <= at /\ UNCHANGED <<clock, token, minted, written>>
    BY <1>4 DEF Present
  <2>2. Issued' /\ clock' \in Time
    BY <2>1 DEF IInv, Issued
  <2>3. Presented'
    BY <2>1 DEF Presented
  <2>4. AcceptedInWindow'
    <3>1. CASE result # "verified"
      BY <1>4, <3>1 DEF Present, IInv, AcceptedInWindow
    <3>2. CASE result = "verified"
      <4>1. t.payload \in Claims /\ t = Sealed(t.payload)
        BY DEF IInv, Issued
      <4>2. v.scheme = TOKEN_SCHEME /\ Decodes(v) /\ Authentic(v)
            /\ ~WindowTooLong(v.payload) /\ ~NotYetValid(v.payload, at) /\ ~Expired(v.payload, at)
        BY <3>2, VerifiedMeans
      <4>3. v = t
        BY <4>1, <4>2, OnlyTheToken
      <4>4. accepted' = accepted \cup {[token |-> v, at |-> at]}
        BY <1>4, <3>2 DEF Present
      <4> QED BY <4>1, <4>2, <4>3, <4>4 DEF IInv, AcceptedInWindow
    <3> QED BY <3>1, <3>2
  <2> QED BY <2>2, <2>3, <2>4 DEF IInv
<1>5. CASE Return
  BY <1>5 DEF Return, IInv, Issued, Presented, AcceptedInWindow
<1>6. CASE Tick
  <2>1. last' = {} /\ clock' \in Time /\ clock \in Int /\ clock' = clock + 1
    BY <1>6, TimesAssumption DEF Tick, IInv, Presented, Time
  <2>2. UNCHANGED <<token, minted, written, accepted>>
    BY <1>6 DEF Tick
  <2>3. Issued'
    <3>1. \A t \in token : t.payload.issued \in Int
      BY DEF IInv, Issued, Claims, Time
    <3>2. minted => \A t \in token : Mintable(t.payload) /\ t.payload.issued <= clock + 1
      BY <2>1, <3>1 DEF IInv, Issued
    <3> QED BY <2>1, <2>2, <3>2 DEF IInv, Issued
  <2> QED BY <2>1, <2>2, <2>3 DEF IInv, Presented, AcceptedInWindow
<1> QED BY <1>1, <1>2, <1>3, <1>4, <1>5, <1>6 DEF Next

LEMMA Invariance == Spec => []IInv
  BY IInvInit, IInvNext, PTL DEF Spec

(***************************************************************************)
(* Theorems.                                                               *)
(***************************************************************************)

\* There is at most one token and one result at a time, and all claims, bindings
\* and times are what the models of the code allow.
THEOREM TypeCorrect == Spec => []TypeOK
<1>1. ASSUME NEW S, \A x, y \in S : x = y PROVE Cardinality(S) <= 1
  <2>1. CASE S = {}
    BY <2>1, FS_EmptySet
  <2>2. ASSUME NEW x \in S PROVE Cardinality(S) <= 1
    <3>1. S = {x}
      BY <1>1
    <3>2. Cardinality({x}) = 1
      BY FS_Singleton
    <3> QED BY <3>1, <3>2
  <2> QED BY <2>1, <2>2
<1>2. IInv /\ minted \in BOOLEAN => TypeOK
  <2> SUFFICES ASSUME IInv, minted \in BOOLEAN PROVE TypeOK
    OBVIOUS
  <2>1. Cardinality(token) <= 1 /\ Cardinality(last) <= 1
    BY <1>1 DEF IInv, Issued, Presented
  <2>2. \A t \in token : t.spelling = "canonical"
    BY DEF IInv, Issued, Sealed
  <2> QED BY <2>1, <2>2 DEF IInv, Issued, Presented, AcceptedInWindow, TypeOK, Mintable
<1>3. Init => minted \in BOOLEAN
  BY DEF Init
<1>4. minted \in BOOLEAN /\ [Next]_vars => (minted \in BOOLEAN)'
  BY DEF Next, vars, Mint, IssuedElsewhere, Present, Return, Tick
<1>5. Spec => [](minted \in BOOLEAN)
  BY <1>3, <1>4, PTL DEF Spec
<1> QED BY <1>2, <1>5, Invariance, PTL

\* What verify said of the token on the caller's desk, spelled out.
LEMMA VerifiedFact ==
    ASSUME IInv, NEW x \in Verified
    PROVE  /\ x.token \in token /\ x.binding \in Binding
           /\ x.token.payload.proposal = x.binding.proposal
           /\ x.token.payload.recipient = x.binding.recipient
           /\ AmountMatches(x.token.payload, x.binding)
<1>1. x \in last /\ Verify(x.token, x.binding, x.at) = "verified" /\ x.binding \in Binding
  BY DEF Verified, IInv, Presented
<1>2. PICK t \in token : x.token \in Variants(t)
  BY <1>1 DEF IInv, Presented
<1>3. t.payload \in Claims /\ t = Sealed(t.payload)
  BY DEF IInv, Issued
<1>4. /\ x.token.scheme = TOKEN_SCHEME /\ Decodes(x.token) /\ Authentic(x.token)
      /\ x.token.payload.proposal = x.binding.proposal
      /\ x.token.payload.recipient = x.binding.recipient
      /\ AmountMatches(x.token.payload, x.binding)
  BY <1>1, VerifiedMeans
<1>5. x.token = t
  BY <1>2, <1>3, <1>4, OnlyTheToken
<1> QED BY <1>1, <1>4, <1>5

\* Whatever becomes of a token on its way, only the token as issued is verified,
\* and only for the proposal and the recipient it names.
THEOREM OnlyTheIssuedToken == Spec => []OnlyAsIssued
<1>1. IInv => OnlyAsIssued
  BY VerifiedFact DEF OnlyAsIssued
<1> QED BY <1>1, Invariance, PTL

\* However long tokens circulate and whoever issued them, a token is good for less
\* than the longest window and the tolerated skew together.
THEOREM TokensAreShortLived == Spec => []ShortLived
<1>1. IInv => ShortLived
  <2> SUFFICES ASSUME IInv, NEW x \in accepted, NEW y \in accepted,
                      x.token.payload = y.token.payload
               PROVE  x.at - y.at < MAX_TOKEN_TTL + CLOCK_SKEW
    BY DEF ShortLived
  <2> DEFINE c == x.token.payload
  <2>1. /\ x.at \in Int /\ y.at \in Int /\ c.issued \in Int /\ c.expires \in Int
        /\ MAX_TOKEN_TTL \in Int /\ CLOCK_SKEW \in Int
    BY TimesAssumption DEF IInv, AcceptedInWindow, Claims, Time
  <2>2. ~(c.expires - c.issued > MAX_TOKEN_TTL)
    BY DEF IInv, AcceptedInWindow, WindowTooLong
  <2>3. ~(x.at >= c.expires)
    BY DEF IInv, AcceptedInWindow, Expired
  <2>4. ~(y.at + CLOCK_SKEW < c.issued)
    BY DEF IInv, AcceptedInWindow, NotYetValid
  <2> HIDE DEF c
  <2> QED BY <2>1, <2>2, <2>3, <2>4
<1> QED BY <1>1, Invariance, PTL

\* A reason that speaks of the claims is given only of authentic claims.
THEOREM ReasonsAreAuthentic == Spec => []ReasonFromAuthenticClaims
<1>1. IInv => ReasonFromAuthenticClaims
  BY LateReasonIsAuthentic DEF IInv, Presented, ReasonFromAuthenticClaims
<1> QED BY <1>1, Invariance, PTL

LEMMA SameValueSymmetric ==
    ASSUME NEW a \in Amount, NEW b \in Amount
    PROVE  SameValue(a, b) <=> SameValue(b, a)
<1>1. a.exp \in Int /\ b.exp \in Int
  BY AmountAssumption
<1>2. CASE a.exp < b.exp
  BY <1>1, <1>2 DEF SameValue
<1>3. CASE b.exp < a.exp
  BY <1>1, <1>3 DEF SameValue
<1>4. CASE a.exp = b.exp
  BY <1>1, <1>4 DEF SameValue
<1> QED BY <1>1, <1>2, <1>3, <1>4

\* Amounts within the precision are authorized as they were approved, however they
\* are written.
THEOREM AmountIsAuthorized ==
    ASSUME Faithful(Amount) PROVE Spec => []AmountAuthorized
<1>1. IInv => AmountAuthorized
  <2> SUFFICES ASSUME IInv, NEW x \in Verified, NEW a \in written
               PROVE  SameValue(x.binding.amount, a)
    BY DEF AmountAuthorized
  <2>1. x.token \in token /\ x.binding \in Binding /\ AmountMatches(x.token.payload, x.binding)
    BY VerifiedFact
  <2>2. a \in Amount /\ x.binding.amount \in Amount
    BY <2>1 DEF IInv, Issued, Binding
  <2>3. SameValue(Normalize(a), Normalize(x.binding.amount))
    BY <2>1 DEF IInv, Issued, AmountMatches
  <2> QED BY <2>2, <2>3, SameValueSymmetric DEF Faithful
<1> QED BY <1>1, Invariance, PTL

\* Nor is a token minted here ever refused for the act it was minted for.
THEOREM HonestIsAccepted ==
    ASSUME Faithful(Amount) PROVE Spec => []HonestAccepted
<1>1. IInv => HonestAccepted
  <2> SUFFICES ASSUME IInv,
                      NEW x \in last, NEW t \in token, NEW a \in written,
                      minted, x.token = t,
                      x.binding.proposal = t.payload.proposal,
                      x.binding.recipient = t.payload.recipient,
                      SameValue(x.binding.amount, a),
                      x.at < t.payload.expires
               PROVE  x.result = "verified"
    BY DEF HonestAccepted
  <2> DEFINE c == t.payload
  <2>1. t = Sealed(c) /\ c \in Claims /\ c.amount = Normalize(a) /\ Mintable(c)
        /\ c.issued <= clock
    BY DEF IInv, Issued
  <2>2. t.scheme = TOKEN_SCHEME /\ Decodes(t) /\ Authentic(t)
    BY <2>1 DEF Sealed, Decodes, Authentic
  <2>3. ClaimsValid(c) /\ ~WindowTooLong(c)
    BY <2>1 DEF Mintable
  <2>4. AmountMatches(c, x.binding)
    <3>1. a \in Amount /\ x.binding.amount \in Amount
      BY DEF IInv, Issued, Presented, Binding
    <3> QED BY <2>1, <3>1, SameValueSymmetric DEF Faithful, AmountMatches
  <2>5. ~NotYetValid(c, x.at) /\ ~Expired(c, x.at)
    <3>1. /\ x.at \in Int /\ clock \in Int /\ c.issued \in Int /\ c.expires \in Int
          /\ CLOCK_SKEW \in Int /\ clock - CLOCK_SKEW <= x.at
      BY <2>1, TimesAssumption DEF IInv, Presented, Claims, Time
    <3>2. c.issued <= clock /\ x.at < c.expires
      BY <2>1
    <3> HIDE DEF c
    <3> QED BY <3>1, <3>2 DEF NotYetValid, Expired
  <2>6. Verify(t, x.binding, x.at) = "verified"
    BY <2>2, <2>3, <2>4, <2>5, VerifiedMeans
  <2> QED BY <2>6 DEF IInv, Presented
<1> QED BY <1>1, Invariance, PTL
=============================================================================
