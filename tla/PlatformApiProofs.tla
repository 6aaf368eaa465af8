-------------------------- MODULE PlatformApiProofs --------------------------
(***************************************************************************)
(* Proofs, for every value of the constants, of the invariants of module   *)
(* PlatformApi: what one caller of the HTTP client sends and receives is   *)
(* its own, after any sequence of failed requests and nested reports.      *)
(***************************************************************************)
EXTENDS PlatformApi, SequenceTheorems, TLAPS

-----------------------------------------------------------------------------
(* Sequences *)

\* A suffix, element by element.
LEMMA SuffixIs ==
  ASSUME NEW S, NEW s \in Seq(S), NEW t \in Seq(S)
  PROVE  IsSuffix(s, t) <=>
           /\ Len(s) <= Len(t)
           /\ \A i \in 1..Len(s) : s[i] = t[Len(t) - Len(s) + i]
<1> DEFINE m == Len(s)
           n == Len(t)
           r == Reverse(s)
           q == Reverse(t)
<1>1. m \in Nat /\ n \in Nat BY LenProperties
<1>2. /\ r \in Seq(S) /\ Len(r) = m /\ \A i \in 1..m : r[i] = s[(m - i) + 1]
      /\ q \in Seq(S) /\ Len(q) = n /\ \A i \in 1..n : q[i] = t[(n - i) + 1]
  <2>1. \A i \in 1..m : (m - i) + 1 \in 1..m BY <1>1
  <2>2. \A i \in 1..n : (n - i) + 1 \in 1..n BY <1>1
  <2>3. \A i \in 1..m : s[i] \in S BY ElementOfSeq
  <2>4. \A i \in 1..n : t[i] \in S BY ElementOfSeq
  <2> QED BY <1>1, <2>1, <2>2, <2>3, <2>4 DEF Reverse
<1> HIDE DEF m, n, r, q
<1>3. IsSuffix(s, t) <=> m <= n /\ SubSeq(r, 1, m) = SubSeq(q, 1, m)
  BY <1>2 DEF IsSuffix, IsPrefix, r, q
<1>4. ASSUME m <= n
      PROVE  SubSeq(r, 1, m) = SubSeq(q, 1, m) <=> \A i \in 1..m : r[i] = q[i]
  <2>1. /\ SubSeq(r, 1, m) \in Seq(S) /\ Len(SubSeq(r, 1, m)) = m
        /\ \A i \in 1..m : SubSeq(r, 1, m)[i] = r[i]
        /\ SubSeq(q, 1, m) \in Seq(S) /\ Len(SubSeq(q, 1, m)) = m
        /\ \A i \in 1..m : SubSeq(q, 1, m)[i] = q[i]
    BY <1>1, <1>2, <1>4
  <2>2. ASSUME \A i \in 1..m : r[i] = q[i]
        PROVE  SubSeq(r, 1, m) = SubSeq(q, 1, m)
    BY <2>1, <2>2, SeqEqual
  <2>3. ASSUME SubSeq(r, 1, m) = SubSeq(q, 1, m)
        PROVE  \A i \in 1..m : r[i] = q[i]
    BY <2>1, <2>3
  <2> QED BY <2>2, <2>3
<1>5. ASSUME m <= n
      PROVE  (\A i \in 1..m : r[i] = q[i]) <=> \A i \in 1..m : s[i] = t[n - m + i]
  <2>1. ASSUME \A i \in 1..m : r[i] = q[i], NEW i \in 1..m
        PROVE  s[i] = t[n - m + i]
    <3>1. (m - i) + 1 \in 1..m /\ (m - i) + 1 \in 1..n BY <1>1, <1>5
    <3>2. r[(m - i) + 1] = s[(m - ((m - i) + 1)) + 1] BY <1>2, <3>1
    <3>3. q[(m - i) + 1] = t[(n - ((m - i) + 1)) + 1] BY <1>2, <3>1
    <3>4. (m - ((m - i) + 1)) + 1 = i /\ (n - ((m - i) + 1)) + 1 = n - m + i BY <1>1
    <3> QED BY <2>1, <3>1, <3>2, <3>3, <3>4
  <2>2. ASSUME \A i \in 1..m : s[i] = t[n - m + i], NEW i \in 1..m
        PROVE  r[i] = q[i]
    <3>1. (m - i) + 1 \in 1..m /\ i \in 1..n BY <1>1, <1>5
    <3>2. s[(m - i) + 1] = t[n - m + ((m - i) + 1)] BY <2>2, <3>1
    <3>3. n - m + ((m - i) + 1) = (n - i) + 1 BY <1>1
    <3> QED BY <1>2, <3>1, <3>2, <3>3
  <2> QED BY <2>1, <2>2
<1> QED BY <1>3, <1>4, <1>5 DEF m, n

LEMMA EmptyIsSuffix ==
  ASSUME NEW S, NEW t \in Seq(S)
  PROVE  IsSuffix(<<>>, t)
<1> DEFINE s == <<>>
<1>1. s \in Seq(S) /\ Len(s) = 0 /\ Len(t) \in Nat BY LenProperties, EmptySeq
<1> HIDE DEF s
<1>2. Len(s) <= Len(t) /\ \A i \in 1..Len(s) : s[i] = t[Len(t) - Len(s) + i]
  BY <1>1
<1>3. IsSuffix(s, t) BY <1>1, <1>2, SuffixIs
<1> QED BY <1>3 DEF s

\* A parameter added to the query and to the caller's own keeps these at its end.
LEMMA SuffixAppend ==
  ASSUME NEW S, NEW s \in Seq(S), NEW t \in Seq(S), NEW e \in S, IsSuffix(s, t)
  PROVE  IsSuffix(Append(s, e), Append(t, e))
<1> DEFINE m == Len(s)
           n == Len(t)
           a == Append(s, e)
           b == Append(t, e)
<1>1. /\ m \in Nat /\ n \in Nat /\ m <= n
      /\ \A i \in 1..m : s[i] = t[n - m + i]
  BY LenProperties, SuffixIs
<1>2. /\ a \in Seq(S) /\ Len(a) = m + 1 /\ a[m + 1] = e /\ \A i \in 1..m : a[i] = s[i]
      /\ b \in Seq(S) /\ Len(b) = n + 1 /\ b[n + 1] = e /\ \A i \in 1..n : b[i] = t[i]
  BY AppendProperties
<1> HIDE DEF m, n, a, b
<1>3. ASSUME NEW i \in 1..m + 1
      PROVE  a[i] = b[(n + 1) - (m + 1) + i]
  <2>1. CASE i = m + 1
    <3>1. (n + 1) - (m + 1) + i = n + 1 BY <1>1, <2>1
    <3> QED BY <1>2, <2>1, <3>1
  <2>2. CASE i # m + 1
    <3>1. i \in 1..m /\ n - m + i \in 1..n BY <1>1, <2>2
    <3>2. (n + 1) - (m + 1) + i = n - m + i BY <1>1
    <3> QED BY <1>1, <1>2, <3>1, <3>2
  <2> QED BY <2>1, <2>2
<1>4. Len(a) <= Len(b) /\ \A i \in 1..Len(a) : a[i] = b[Len(b) - Len(a) + i]
  BY <1>1, <1>2, <1>3
<1>5. IsSuffix(a, b) BY <1>2, <1>4, SuffixIs
<1> QED BY <1>5 DEF a, b

LEMMA ToSetAppend ==
  ASSUME NEW S, NEW s \in Seq(S), NEW e \in S
  PROVE  ToSet(Append(s, e)) = ToSet(s) \cup {e}
<1> DEFINE m == Len(s)
           a == Append(s, e)
<1>1. /\ m \in Nat /\ DOMAIN s = 1..m
      /\ a \in Seq(S) /\ Len(a) = m + 1 /\ a[m + 1] = e /\ \A i \in 1..m : a[i] = s[i]
  BY LenProperties, AppendProperties
<1>2. DOMAIN a = 1..m + 1 BY <1>1, LenProperties
<1> HIDE DEF m, a
<1>3. ToSet(a) = ToSet(s) \cup {e} BY <1>1, <1>2 DEF ToSet
<1> QED BY <1>3 DEF a
-----------------------------------------------------------------------------
(* The calls that the routines make *)

Names == {"init", "set_token", "set_query_string", "perform_request", "retrieve_val",
          "check", "atoi", "cleanup", "parse"}
Urls == {"fetch", "update"}

CallSet == [call : Names, arg : Urls \cup Parameters \cup {NULL}]

\* The parameter that an endpoint is asked with, and what its answer is for.
ParamsFor(u)  == IF u = "fetch" THEN {"keys"} ELSE {"count", "sys_report"}
AnswerCall(u) == IF u = "fetch" THEN "retrieve_val" ELSE "cleanup"

\* From call i on, s performs a request to endpoint u, sets its own parameter
\* before, the type before that, and the token.
Performs(s, i, u) ==
  i < Len(s) /\ s[i].call = "perform_request" /\ s[i + 1].call = AnswerCall(u)
SetsOwn(s, i, u) ==
  s[i].call = "set_query_string" /\ s[i].arg \in ParamsFor(u) /\ Performs(s, i + 1, u)
SetsType(s, i, u) ==
  s[i].call = "set_query_string" /\ s[i].arg = "type" /\ SetsOwn(s, i + 1, u)
SetsToken(s, i, u) ==
  s[i].call = "set_token" /\ SetsType(s, i + 1, u)

\* What follows each call.
InitFollowed(s, i) ==
  s[i].call = "init" => s[i].arg \in Urls /\ SetsToken(s, i + 1, s[i].arg)
RetrieveFollowed(s, i) ==
  s[i].call = "retrieve_val" => i < Len(s) /\ s[i + 1].call \in {"check", "cleanup"}
CheckFollowed(s, i) ==
  s[i].call = "check" => Len(s) = i + 1 /\ s[i + 1].call = "cleanup"
EndFollowed(s, i) ==
  s[i].call \in {"atoi", "cleanup", "parse"} /\ i < Len(s) =>
    s[i + 1].call \in {"init", "atoi", "cleanup", "parse"}

\* A sequence of calls that keeps these rules.
Sentence(s) ==
  \A i \in 1..Len(s) :
    InitFollowed(s, i) /\ RetrieveFollowed(s, i) /\ CheckFollowed(s, i) /\ EndFollowed(s, i)

Checks(s) == \E i \in 1..Len(s) : s[i].call = "check"

-----------------------------------------------------------------------------
(* The inductive invariant *)

Next1(f) == todo # <<>> /\ todo[1].call = f

TodoOK == todo \in Seq(CallSet) /\ Sentence(todo)

\* A call that is due finds the endpoint and the parameters that the calls
\* before it have left.
TokenDue == Next1("set_token") =>
  host_url \in Urls /\ SetsToken(todo, 1, host_url) /\ "keys" \notin ToSet(own)
TypeDue == Next1("set_query_string") /\ todo[1].arg = "type" =>
  host_url \in Urls /\ SetsType(todo, 1, host_url) /\ "keys" \notin ToSet(own)
OwnDue == Next1("set_query_string") /\ todo[1].arg # "type" =>
  host_url \in Urls /\ SetsOwn(todo, 1, host_url) /\ "keys" \notin ToSet(own)
RequestDue == Next1("perform_request") =>
  /\ host_url \in Urls /\ Performs(todo, 1, host_url)
  /\ "keys" \in ToSet(own) <=> host_url = "fetch"
ValueDue == Next1("retrieve_val") =>
  /\ host_url = "fetch" /\ response_buffer = request.body
  /\ request.own = own /\ request.url = "fetch"
Due == TokenDue /\ TypeDue /\ OwnDue /\ RequestDue /\ ValueDue

\* Between platform_api_init and the request the query ends with the caller's
\* parameters; only failed requests leave anything behind.
Preparing ==
  todo # <<>> /\ todo[1].call \in {"set_token", "set_query_string", "perform_request"}
QueryOwn ==
  IF Preparing THEN IsSuffix(own, query) /\ (failures = 0 => query = own)
               ELSE failures = 0 => query = <<>>

\* A client that is open when the next one is about to be opened is that of a
\* fetch whose failure is being reported.
Answering == todo # <<>> /\ todo[1].call \in {"retrieve_val", "check", "cleanup"}
OpenClient ==
  /\ lostClients <= failedFetches
  /\ http_client /\ ~Answering => lostClients < failedFetches

\* Room for the failure of the fetch that is going on.
CheckBudget == Checks(todo) => failedFetches < MAX_FETCHES

IInv ==
  /\ TypeOK /\ TodoOK /\ Due /\ QueryOwn /\ OpenClient /\ CheckBudget
  /\ OwnParametersLast
-----------------------------------------------------------------------------
(* The rest of a routine keeps the rules *)

LEMMA RestIs ==
  ASSUME NEW s \in Seq(CallSet), s # <<>>
  PROVE  /\ Len(s) \in Nat \ {0} /\ Tail(s) \in Seq(CallSet) /\ Len(Tail(s)) = Len(s) - 1
         /\ \A i \in 1..Len(s) - 1 : Tail(s)[i] = s[i + 1]
BY HeadTailProperties, EmptySeq

\* When the first call is done, what followed it comes first.
LEMMA RestFollows ==
  ASSUME NEW s \in Seq(CallSet), s # <<>>, NEW i \in Nat \ {0}, NEW u
  PROVE  /\ Performs(s, i + 1, u) => Performs(Tail(s), i, u)
         /\ SetsOwn(s, i + 1, u) => SetsOwn(Tail(s), i, u)
         /\ SetsType(s, i + 1, u) => SetsType(Tail(s), i, u)
         /\ SetsToken(s, i + 1, u) => SetsToken(Tail(s), i, u)
<1>1. ASSUME NEW j \in Nat \ {0}, Performs(s, j + 1, u)
      PROVE  Performs(Tail(s), j, u) /\ j + 1 < Len(s)
  <2>1. j + 1 < Len(s) /\ s[j + 1].call = "perform_request" /\ s[j + 1 + 1].call = AnswerCall(u)
    BY <1>1 DEF Performs
  <2>2. j \in 1..Len(s) - 1 /\ j + 1 \in 1..Len(s) - 1 BY <2>1, RestIs
  <2> QED BY <2>1, <2>2, RestIs DEF Performs
<1>2. ASSUME NEW j \in Nat \ {0}, SetsOwn(s, j + 1, u)
      PROVE  SetsOwn(Tail(s), j, u) /\ j + 1 < Len(s)
  <2>1. Performs(Tail(s), j + 1, u) /\ j + 1 + 1 < Len(s)
    BY <1>1, <1>2 DEF SetsOwn
  <2>2. j \in 1..Len(s) - 1 BY <2>1, RestIs
  <2> QED BY <1>2, <2>1, <2>2, RestIs DEF SetsOwn
<1>3. ASSUME NEW j \in Nat \ {0}, SetsType(s, j + 1, u)
      PROVE  SetsType(Tail(s), j, u) /\ j + 1 < Len(s)
  <2>1. SetsOwn(Tail(s), j + 1, u) /\ j + 1 + 1 < Len(s)
    BY <1>2, <1>3 DEF SetsType
  <2>2. j \in 1..Len(s) - 1 BY <2>1, RestIs
  <2> QED BY <1>3, <2>1, <2>2, RestIs DEF SetsType
<1>4. ASSUME NEW j \in Nat \ {0}, SetsToken(s, j + 1, u)
      PROVE  SetsToken(Tail(s), j, u)
  <2>1. SetsType(Tail(s), j + 1, u) /\ j + 1 + 1 < Len(s)
    BY <1>3, <1>4 DEF SetsToken
  <2>2. j \in 1..Len(s) - 1 BY <2>1, RestIs
  <2> QED BY <1>4, <2>1, <2>2, RestIs DEF SetsToken
<1> QED BY <1>1, <1>2, <1>3, <1>4

LEMMA RestKeepsRules ==
  ASSUME NEW s \in Seq(CallSet), s # <<>>, Sentence(s)
  PROVE  Sentence(Tail(s)) /\ (Checks(Tail(s)) => Checks(s))
<1> DEFINE t == Tail(s)
<1>1. /\ Len(s) \in Nat \ {0} /\ Len(t) = Len(s) - 1
      /\ \A i \in 1..Len(s) - 1 : t[i] = s[i + 1]
  BY RestIs
<1>2. ASSUME NEW i \in 1..Len(t)
      PROVE  /\ i \in Nat \ {0} /\ i + 1 \in 1..Len(s) /\ t[i] = s[i + 1]
             /\ i < Len(t) => i + 1 < Len(s) /\ t[i + 1] = s[(i + 1) + 1]
  BY <1>1
<1>3. ASSUME NEW i \in 1..Len(t) PROVE InitFollowed(t, i)
  <2> SUFFICES ASSUME t[i].call = "init"
               PROVE  t[i].arg \in Urls /\ SetsToken(t, i + 1, t[i].arg)
    BY DEF InitFollowed
  <2>1. s[i + 1].arg \in Urls /\ SetsToken(s, (i + 1) + 1, s[i + 1].arg)
    BY <1>2 DEF Sentence, InitFollowed
  <2>2. i + 1 \in Nat \ {0} BY <1>2
  <2> QED BY <1>2, <2>1, <2>2, RestFollows
<1>4. ASSUME NEW i \in 1..Len(t) PROVE RetrieveFollowed(t, i) /\ EndFollowed(t, i)
  <2>1. RetrieveFollowed(s, i + 1) /\ EndFollowed(s, i + 1) BY <1>2 DEF Sentence
  <2>2. i + 1 < Len(s) => i < Len(t) BY <1>1
  <2> QED BY <1>2, <2>1, <2>2 DEF RetrieveFollowed, EndFollowed
<1>5. ASSUME NEW i \in 1..Len(t) PROVE CheckFollowed(t, i)
  <2>1. CheckFollowed(s, i + 1) BY <1>2 DEF Sentence
  <2>2. Len(s) = (i + 1) + 1 => Len(t) = i + 1 /\ i < Len(t) BY <1>1
  <2> QED BY <1>2, <2>1, <2>2 DEF CheckFollowed
<1>6. Checks(t) => Checks(s) BY <1>2 DEF Checks
<1> QED BY <1>3, <1>4, <1>5, <1>6 DEF Sentence
-----------------------------------------------------------------------------
(* The routines keep the rules *)

\* The calls of t behind n others are followed as in t.
LEMMA BehindFollows ==
  ASSUME NEW t \in Seq(CallSet), NEW s, NEW n \in Nat, Len(s) = n + Len(t),
         \A i \in 1..Len(t) : s[n + i] = t[i],
         NEW k \in Nat \ {0}, NEW u, SetsToken(t, k, u)
  PROVE  SetsToken(s, n + k, u)
<1>1. /\ t[k].call = "set_token"
      /\ t[k + 1].call = "set_query_string" /\ t[k + 1].arg = "type"
      /\ t[k + 1 + 1].call = "set_query_string" /\ t[k + 1 + 1].arg \in ParamsFor(u)
      /\ k + 1 + 1 + 1 < Len(t)
      /\ t[k + 1 + 1 + 1].call = "perform_request"
      /\ t[k + 1 + 1 + 1 + 1].call = AnswerCall(u)
  BY DEF SetsToken, SetsType, SetsOwn, Performs
<1>2. /\ Len(t) \in Nat
      /\ k \in 1..Len(t) /\ k + 1 \in 1..Len(t) /\ k + 1 + 1 \in 1..Len(t)
      /\ k + 1 + 1 + 1 \in 1..Len(t) /\ k + 1 + 1 + 1 + 1 \in 1..Len(t)
  BY <1>1, LenProperties
<1>3. /\ n + k + 1 = n + (k + 1) /\ n + k + 1 + 1 = n + (k + 1 + 1)
      /\ n + k + 1 + 1 + 1 = n + (k + 1 + 1 + 1)
      /\ n + k + 1 + 1 + 1 + 1 = n + (k + 1 + 1 + 1 + 1)
      /\ n + k + 1 + 1 + 1 < n + Len(t)
  BY <1>1, <1>2
<1> QED BY <1>1, <1>2, <1>3 DEF SetsToken, SetsType, SetsOwn, Performs

LEMMA CallFields ==
  ASSUME NEW f, NEW a
  PROVE  /\ Call(f, a).call = f /\ Call(f, a).arg = a
         /\ f \in Names /\ a \in Urls \cup Parameters \cup {NULL} => Call(f, a) \in CallSet
BY DEF Call, CallSet

\* The calls of s in front of others are followed as in s.
LEMMA BeforeFollows ==
  ASSUME NEW s \in Seq(CallSet), NEW r, NEW n \in Nat, n = Len(s), Len(r) >= n,
         Len(r) \in Nat, \A i \in 1..n : r[i] = s[i],
         NEW k \in Nat \ {0}, NEW u, SetsToken(s, k, u)
  PROVE  SetsToken(r, k, u)
<1>1. /\ s[k].call = "set_token"
      /\ s[k + 1].call = "set_query_string" /\ s[k + 1].arg = "type"
      /\ s[k + 1 + 1].call = "set_query_string" /\ s[k + 1 + 1].arg \in ParamsFor(u)
      /\ k + 1 + 1 + 1 < Len(s)
      /\ s[k + 1 + 1 + 1].call = "perform_request"
      /\ s[k + 1 + 1 + 1 + 1].call = AnswerCall(u)
  BY DEF SetsToken, SetsType, SetsOwn, Performs
<1>2. /\ k \in 1..n /\ k + 1 \in 1..n /\ k + 1 + 1 \in 1..n
      /\ k + 1 + 1 + 1 \in 1..n /\ k + 1 + 1 + 1 + 1 \in 1..n
      /\ k + 1 + 1 + 1 < Len(r)
  BY <1>1
<1> QED BY <1>1, <1>2 DEF SetsToken, SetsType, SetsOwn, Performs

\* The four calls of a routine's begin.
LEMMA PrepareIs ==
  ASSUME NEW u \in Urls, NEW p \in Parameters
  PROVE  /\ Prepare(u, p) \in Seq(CallSet) /\ Len(Prepare(u, p)) = 4
         /\ Prepare(u, p)[1] = Call("init", u)
         /\ Prepare(u, p)[2] = Call("set_token", NULL)
         /\ Prepare(u, p)[3] = Call("set_query_string", "type")
         /\ Prepare(u, p)[4] = Call("set_query_string", p)
<1>1. /\ Call("init", u) \in CallSet /\ Call("set_token", NULL) \in CallSet
      /\ Call("set_query_string", "type") \in CallSet
      /\ Call("set_query_string", p) \in CallSet
  BY CallFields DEF Names, Urls, Parameters
<1> QED BY <1>1 DEF Prepare

\* ... and the request that it prepares.
LEMMA PreparedRequest ==
  ASSUME NEW u \in Urls, NEW p \in ParamsFor(u), NEW t \in Seq(CallSet),
         Performs(t, 1, u), Sentence(t)
  PROVE  LET s == Prepare(u, p) \o t
         IN  /\ s \in Seq(CallSet) /\ Len(s) = Len(t) + 4 /\ s[1] = Call("init", u)
             /\ Sentence(s) /\ (Checks(s) => Checks(t))
<1> DEFINE b == Prepare(u, p)
           s == b \o t
<1>1. p \in Parameters BY DEF ParamsFor, Parameters
<1>2. /\ b \in Seq(CallSet) /\ Len(b) = 4
      /\ b[1] = Call("init", u) /\ b[2] = Call("set_token", NULL)
      /\ b[3] = Call("set_query_string", "type") /\ b[4] = Call("set_query_string", p)
  BY <1>1, PrepareIs
<1> HIDE DEF b
<1>3. Len(t) \in Nat BY LenProperties
<1>4. /\ s \in Seq(CallSet) /\ Len(s) = 4 + Len(t)
      /\ \A i \in 1..4 + Len(t) : s[i] = IF i <= 4 THEN b[i] ELSE t[i - 4]
  <2>1. b \in Seq(CallSet) BY <1>2
  <2>2. /\ s \in Seq(CallSet) /\ Len(s) = Len(b) + Len(t)
        /\ \A i \in 1..Len(b) + Len(t) :
             s[i] = IF i <= Len(b) THEN b[i] ELSE t[i - Len(b)]
    BY <2>1, ConcatProperties
  <2> QED BY <1>2, <2>2
<1> HIDE DEF s
<1>5. /\ s[1] = Call("init", u) /\ s[2] = Call("set_token", NULL)
      /\ s[3] = Call("set_query_string", "type") /\ s[4] = Call("set_query_string", p)
  BY <1>2, <1>3, <1>4
<1>6. \A i \in 1..Len(t) : s[4 + i] = t[i]
  BY <1>3, <1>4
<1>7. 1 < Len(t) BY DEF Performs
<1>8. Performs(s, 5, u)
  <2>1. s[5] = t[1] /\ s[6] = t[2] BY <1>3, <1>6, <1>7
  <2> QED BY <1>3, <1>4, <1>7, <2>1 DEF Performs
<1>9. SetsToken(s, 2, u)
  <2>1. /\ s[2].call = "set_token" /\ s[3].call = "set_query_string" /\ s[3].arg = "type"
        /\ s[4].call = "set_query_string" /\ s[4].arg = p
    BY <1>5, CallFields
  <2>2. 2 + 1 = 3 /\ 3 + 1 = 4 /\ 4 + 1 = 5 OBVIOUS
  <2> QED BY <1>8, <2>1, <2>2 DEF SetsToken, SetsType, SetsOwn
<1>10. ASSUME NEW i \in 1..Len(s)
       PROVE  InitFollowed(s, i) /\ RetrieveFollowed(s, i) /\ CheckFollowed(s, i)
              /\ EndFollowed(s, i)
  <2>1. CASE i = 1
    <3>1. s[i].call = "init" /\ s[i].arg = u BY <1>5, <2>1, CallFields
    <3>2. i + 1 = 2 BY <2>1
    <3> QED BY <1>9, <3>1, <3>2
        DEF InitFollowed, RetrieveFollowed, CheckFollowed, EndFollowed
  <2>2. CASE i \in 2..4
    <3>1. s[i].call \in {"set_token", "set_query_string"} BY <1>5, <2>2, CallFields
    <3> QED BY <3>1 DEF InitFollowed, RetrieveFollowed, CheckFollowed, EndFollowed
  <2>3. CASE i > 4
    <3> DEFINE k == i - 4
    <3>1. /\ k \in 1..Len(t) /\ i = 4 + k /\ s[i] = t[k]
          /\ k < Len(t) <=> i < Len(s)
          /\ k < Len(t) => s[i + 1] = t[k + 1]
      <4>1. k \in 1..Len(t) /\ i = 4 + k /\ (k < Len(t) <=> i < Len(s))
        BY <1>3, <1>4, <2>3
      <4>2. k < Len(t) => k + 1 \in 1..Len(t) /\ i + 1 = 4 + (k + 1) BY <1>3, <4>1
      <4> QED BY <1>6, <4>1, <4>2
    <3> HIDE DEF k
    <3>2. InitFollowed(t, k) /\ RetrieveFollowed(t, k) /\ CheckFollowed(t, k)
          /\ EndFollowed(t, k)
      BY <3>1 DEF Sentence
    <3>3. RetrieveFollowed(s, i) /\ EndFollowed(s, i)
      BY <3>1, <3>2 DEF RetrieveFollowed, EndFollowed
    <3>4. CheckFollowed(s, i)
      <4>1. Len(t) = k + 1 => Len(s) = i + 1 /\ k < Len(t) BY <1>3, <1>4, <3>1
      <4> QED BY <3>1, <3>2, <4>1 DEF CheckFollowed
    <3>5. InitFollowed(s, i)
      <4> SUFFICES ASSUME s[i].call = "init"
                   PROVE  s[i].arg \in Urls /\ SetsToken(s, i + 1, s[i].arg)
        BY DEF InitFollowed
      <4>1. s[i].arg \in Urls /\ SetsToken(t, k + 1, s[i].arg)
        BY <3>1, <3>2 DEF InitFollowed
      <4>2. k + 1 \in Nat \ {0} /\ i + 1 = 4 + (k + 1) BY <3>1
      <4>3. Len(s) = 4 + Len(t) BY <1>4
      <4> QED BY <1>6, <4>1, <4>2, <4>3, BehindFollows, SMTT(40)
    <3> QED BY <3>3, <3>4, <3>5
  <2> QED BY <2>1, <2>2, <2>3
<1>11. Checks(s) => Checks(t)
  <2> SUFFICES ASSUME NEW i \in 1..Len(s), s[i].call = "check" PROVE Checks(t)
    BY DEF Checks
  <2>1. i > 4 BY <1>5, CallFields
  <2>2. i - 4 \in 1..Len(t) /\ s[i] = t[i - 4] BY <1>3, <1>4, <2>1
  <2> QED BY <2>2 DEF Checks
<1>12. Sentence(s) BY <1>10 DEF Sentence
<1> QED BY <1>3, <1>4, <1>5, <1>11, <1>12 DEF s, b
\* A routine without a check in front of one that begins with init, or of the
\* cleanup of a caller.
LEMMA RoutinesInARow ==
  ASSUME NEW s \in Seq(CallSet), Sentence(s), ~Checks(s),
         NEW t \in Seq(CallSet), Sentence(t), t[1].call \in {"init", "atoi", "cleanup"}
  PROVE  /\ s \o t \in Seq(CallSet) /\ Len(s \o t) = Len(s) + Len(t)
         /\ Len(s) > 0 => (s \o t)[1] = s[1]
         /\ Sentence(s \o t) /\ (Checks(s \o t) => Checks(t))
<1> DEFINE r == s \o t
           n == Len(s)
<1>1. n \in Nat /\ Len(t) \in Nat BY LenProperties
<1>2. /\ r \in Seq(CallSet) /\ Len(r) = n + Len(t)
      /\ \A i \in 1..n + Len(t) : r[i] = IF i <= n THEN s[i] ELSE t[i - n]
  BY ConcatProperties
<1> HIDE DEF r
<1>3. \A i \in 1..n : r[i] = s[i] BY <1>1, <1>2
<1>4. \A i \in 1..Len(t) : r[n + i] = t[i] BY <1>1, <1>2, SMTT(30)
<1>5. ASSUME NEW i \in 1..Len(r)
      PROVE  InitFollowed(r, i) /\ RetrieveFollowed(r, i) /\ CheckFollowed(r, i)
             /\ EndFollowed(r, i)
  <2>1. CASE i <= n
    <3>0. i \in 1..n /\ r[i] = s[i] BY <1>1, <1>3, <2>1
    <3>1. InitFollowed(s, i) /\ RetrieveFollowed(s, i) /\ EndFollowed(s, i)
      BY <3>0 DEF Sentence
    <3>2. CheckFollowed(r, i) BY <3>0 DEF CheckFollowed, Checks
    <3>3. RetrieveFollowed(r, i)
      <4>1. i < Len(s) => i < Len(r) /\ i + 1 \in 1..n BY <1>1, <1>2, <3>0
      <4> QED BY <1>3, <3>0, <3>1, <4>1 DEF RetrieveFollowed
    <3>4. EndFollowed(r, i)
      <4>1. CASE i < n
        <5>1. i < Len(s) /\ i + 1 \in 1..n BY <1>1, <3>0, <4>1
        <5> QED BY <1>3, <3>0, <3>1, <5>1 DEF EndFollowed
      <4>2. CASE i = n
        <5>1. i < Len(r) => 1 \in 1..Len(t) /\ i + 1 = n + 1 BY <1>1, <1>2, <4>2
        <5> QED BY <1>4, <5>1 DEF EndFollowed
      <4> QED BY <1>1, <3>0, <4>1, <4>2
    <3>5. InitFollowed(r, i)
      <4> SUFFICES ASSUME r[i].call = "init"
                   PROVE  r[i].arg \in Urls /\ SetsToken(r, i + 1, r[i].arg)
        BY DEF InitFollowed
      <4>1. r[i].arg \in Urls /\ SetsToken(s, i + 1, r[i].arg)
        BY <3>0, <3>1 DEF InitFollowed
      <4>2. i + 1 \in Nat \ {0} BY <3>0
      <4>3. Len(r) \in Nat /\ Len(r) >= n BY <1>1, <1>2
      <4>4. SetsToken(r, i + 1, r[i].arg) BY <1>1, <1>3, <4>1, <4>2, <4>3, BeforeFollows
      <4> QED BY <4>1, <4>4
    <3> QED BY <3>2, <3>3, <3>4, <3>5
  <2>2. CASE i > n
    <3> DEFINE k == i - n
    <3>1. /\ k \in 1..Len(t) /\ i = n + k /\ r[i] = t[k]
          /\ k < Len(t) <=> i < Len(r)
          /\ k < Len(t) => r[i + 1] = t[k + 1]
      <4>1. k \in 1..Len(t) /\ i = n + k /\ (k < Len(t) <=> i < Len(r))
        BY <1>1, <1>2, <2>2
      <4>2. k < Len(t) => k + 1 \in 1..Len(t) /\ i + 1 = n + (k + 1) BY <1>1, <4>1
      <4> QED BY <1>4, <4>1, <4>2
    <3> HIDE DEF k
    <3>2. InitFollowed(t, k) /\ RetrieveFollowed(t, k) /\ CheckFollowed(t, k)
          /\ EndFollowed(t, k)
      BY <3>1 DEF Sentence
    <3>3. RetrieveFollowed(r, i) /\ EndFollowed(r, i)
      BY <3>1, <3>2 DEF RetrieveFollowed, EndFollowed
    <3>4. CheckFollowed(r, i)
      <4>1. Len(t) = k + 1 => Len(r) = i + 1 /\ k < Len(t) BY <1>1, <1>2, <3>1
      <4> QED BY <3>1, <3>2, <4>1 DEF CheckFollowed
    <3>5. InitFollowed(r, i)
      <4> SUFFICES ASSUME r[i].call = "init"
                   PROVE  r[i].arg \in Urls /\ SetsToken(r, i + 1, r[i].arg)
        BY DEF InitFollowed
      <4>1. r[i].arg \in Urls /\ SetsToken(t, k + 1, r[i].arg)
        BY <3>1, <3>2 DEF InitFollowed
      <4>2. k + 1 \in Nat \ {0} /\ i + 1 = n + (k + 1) BY <1>1, <3>1
      <4> QED BY <1>1, <1>2, <1>4, <4>1, <4>2, BehindFollows
    <3> QED BY <3>3, <3>4, <3>5
  <2> QED BY <1>1, <1>2, <2>1, <2>2
<1>6. Checks(r) => Checks(t)
  <2> SUFFICES ASSUME NEW i \in 1..Len(r), r[i].call = "check" PROVE Checks(t)
    BY DEF Checks
  <2>1. i > n
    <3>1. i \in 1..n => s[i].call = "check" BY <1>3
    <3> QED BY <1>1, <1>2, <3>1 DEF Checks
  <2>2. i - n \in 1..Len(t) /\ r[i] = t[i - n] BY <1>1, <1>2, <2>1
  <2> QED BY <2>2 DEF Checks
<1>7. n > 0 => r[1] = s[1] BY <1>1, <1>3
<1>8. Sentence(r) BY <1>5 DEF Sentence
<1> QED BY <1>2, <1>6, <1>7, <1>8 DEF r

\* The ends of the routines, from the request on.
LEMMA EndsKeepRules ==
  LET set    == << Call("perform_request", NULL), Call("cleanup", NULL) >>
      fetch  == << Call("perform_request", NULL), Call("retrieve_val", NULL),
                   Call("check", NULL), Call("cleanup", NULL) >>
      report == << Call("perform_request", NULL), Call("retrieve_val", NULL),
                   Call("cleanup", NULL), Call("parse", NULL) >>
  IN  /\ set \in Seq(CallSet) /\ fetch \in Seq(CallSet) /\ report \in Seq(CallSet)
      /\ Performs(set, 1, "update") /\ Performs(fetch, 1, "fetch")
      /\ Performs(report, 1, "fetch")
      /\ Sentence(set) /\ Sentence(fetch) /\ Sentence(report)
      /\ ~Checks(set) /\ ~Checks(report)
<1> DEFINE p == Call("perform_request", NULL)
           v == Call("retrieve_val", NULL)
           k == Call("check", NULL)
           c == Call("cleanup", NULL)
           e == Call("parse", NULL)
<1>1. /\ p \in CallSet /\ v \in CallSet /\ k \in CallSet /\ c \in CallSet /\ e \in CallSet
      /\ p.call = "perform_request" /\ v.call = "retrieve_val" /\ k.call = "check"
      /\ c.call = "cleanup" /\ e.call = "parse"
  BY CallFields DEF Names
<1> HIDE DEF p, v, k, c, e
<1>2. /\ <<p, c>> \in Seq(CallSet) /\ <<p, v, k, c>> \in Seq(CallSet)
      /\ <<p, v, c, e>> \in Seq(CallSet)
  BY <1>1
<1>3. /\ Performs(<<p, c>>, 1, "update") /\ Performs(<<p, v, k, c>>, 1, "fetch")
      /\ Performs(<<p, v, c, e>>, 1, "fetch")
  BY <1>1 DEF Performs, AnswerCall
<1>4. Sentence(<<p, c>>)
  BY <1>1 DEF Sentence, InitFollowed, RetrieveFollowed, CheckFollowed, EndFollowed
<1>5. Sentence(<<p, v, k, c>>)
  BY <1>1 DEF Sentence, InitFollowed, RetrieveFollowed, CheckFollowed, EndFollowed
<1>6. Sentence(<<p, v, c, e>>)
  BY <1>1 DEF Sentence, InitFollowed, RetrieveFollowed, CheckFollowed, EndFollowed
<1>7. ~Checks(<<p, c>>) /\ ~Checks(<<p, v, c, e>>)
  BY <1>1 DEF Checks
<1> QED BY <1>2, <1>3, <1>4, <1>5, <1>6, <1>7 DEF p, v, k, c, e
LEMMA RoutineRules ==
  /\ \A R \in Routines : R \in Seq(CallSet) /\ Len(R) > 0 /\ R[1].call = "init" /\ Sentence(R)
  /\ \A R \in Routines : Checks(R) => R = FetchNumber
  /\ ~Checks(SystemReport)
<1> DEFINE set    == << Call("perform_request", NULL), Call("cleanup", NULL) >>
           fetch  == << Call("perform_request", NULL), Call("retrieve_val", NULL),
                        Call("check", NULL), Call("cleanup", NULL) >>
           report == << Call("perform_request", NULL), Call("retrieve_val", NULL),
                        Call("cleanup", NULL), Call("parse", NULL) >>
<1>1. /\ set \in Seq(CallSet) /\ fetch \in Seq(CallSet) /\ report \in Seq(CallSet)
      /\ Performs(set, 1, "update") /\ Performs(fetch, 1, "fetch")
      /\ Performs(report, 1, "fetch")
      /\ Sentence(set) /\ Sentence(fetch) /\ Sentence(report)
      /\ ~Checks(set) /\ ~Checks(report)
  BY EndsKeepRules
<1>2. /\ "update" \in Urls /\ "fetch" \in Urls /\ "count" \in ParamsFor("update")
      /\ "sys_report" \in ParamsFor("update") /\ "keys" \in ParamsFor("fetch")
  BY DEF Urls, ParamsFor
<1> HIDE DEF set, fetch, report
<1> DEFINE a == Prepare("fetch", "keys") \o report
           b == Prepare("update", "sys_report") \o set
<1>3. SetCount = Prepare("update", "count") \o set BY DEF SetCount, set
<1>4. FetchNumber = Prepare("fetch", "keys") \o fetch BY DEF FetchNumber, fetch
<1>5. SystemReport = a \o b BY DEF SystemReport, set, report
<1>6. /\ SetCount \in Seq(CallSet) /\ Len(SetCount) = Len(set) + 4
      /\ SetCount[1] = Call("init", "update") /\ Sentence(SetCount) /\ ~Checks(SetCount)
  BY <1>1, <1>2, <1>3, PreparedRequest
<1>7. /\ FetchNumber \in Seq(CallSet) /\ Len(FetchNumber) = Len(fetch) + 4
      /\ FetchNumber[1] = Call("init", "fetch") /\ Sentence(FetchNumber)
  BY <1>1, <1>2, <1>4, PreparedRequest
<1>8. /\ a \in Seq(CallSet) /\ Len(a) = Len(report) + 4
      /\ a[1] = Call("init", "fetch") /\ Sentence(a) /\ ~Checks(a)
  BY <1>1, <1>2, PreparedRequest
<1>9. /\ b \in Seq(CallSet) /\ Len(b) = Len(set) + 4
      /\ b[1] = Call("init", "update") /\ Sentence(b) /\ ~Checks(b)
  BY <1>1, <1>2, PreparedRequest
<1>10. Len(set) \in Nat /\ Len(fetch) \in Nat /\ Len(report) \in Nat BY <1>1, LenProperties
<1> HIDE DEF a, b
<1>11. /\ SystemReport \in Seq(CallSet) /\ Len(SystemReport) = Len(a) + Len(b)
       /\ SystemReport[1] = Call("init", "fetch") /\ Sentence(SystemReport)
       /\ ~Checks(SystemReport)
  <2>1. b[1].call = "init" /\ Len(a) > 0 BY <1>8, <1>9, <1>10, CallFields
  <2> QED BY <1>5, <1>8, <1>9, <2>1, RoutinesInARow
<1>12. ASSUME NEW R \in Routines
       PROVE  R \in Seq(CallSet) /\ Len(R) > 0 /\ R[1].call = "init" /\ Sentence(R)
  BY <1>6, <1>7, <1>8, <1>9, <1>10, <1>11, CallFields DEF Routines
<1>13. ASSUME NEW R \in Routines, Checks(R) PROVE R = FetchNumber
  BY <1>6, <1>11, <1>13 DEF Routines
<1> QED BY <1>11, <1>12, <1>13

\* A report that fetchNumber makes, in front of its conversion and cleanup.
LEMMA NestedReport ==
  ASSUME NEW t \in Seq(CallSet), Sentence(t), t[1].call = "atoi", ~Checks(t)
  PROVE  /\ SystemReport \o t \in Seq(CallSet) /\ SystemReport \o t # <<>>
         /\ (SystemReport \o t)[1].call = "init"
         /\ Sentence(SystemReport \o t) /\ ~Checks(SystemReport \o t)
<1>1. SystemReport \in Routines BY DEF Routines
<1>2. /\ SystemReport \in Seq(CallSet) /\ Len(SystemReport) > 0
      /\ SystemReport[1].call = "init" /\ Sentence(SystemReport)
  BY <1>1, RoutineRules
<1>3. ~Checks(SystemReport)
  BY RoutineRules
<1>4. Len(t) \in Nat /\ Len(SystemReport) \in Nat BY <1>2, LenProperties
<1> QED BY <1>2, <1>3, <1>4, RoutinesInARow
-----------------------------------------------------------------------------
(* Every action preserves the invariant *)

LEMMA CallsIs ==
  ASSUME TodoOK, NEW f
  PROVE  Calls(f) <=> Next1(f)
BY DEF Calls, Next1, TodoOK

\* A call that is done leaves the rest of the routine, which begins with what
\* follows it.
LEMMA DoneRules ==
  ASSUME TodoOK, todo # <<>>, Done
  PROVE  /\ TodoOK' /\ (Checks(todo)' => Checks(todo))
         /\ Len(todo) \in Nat \ {0} /\ Len(todo') = Len(todo) - 1
         /\ todo' # <<>> <=> Len(todo) > 1
         /\ todo' # <<>> => todo'[1] = todo[2]
<1>1. todo \in Seq(CallSet) /\ Sentence(todo) /\ todo' = Tail(todo) BY DEF TodoOK, Done
<1>2. /\ Len(todo) \in Nat \ {0} /\ todo' \in Seq(CallSet) /\ Len(todo') = Len(todo) - 1
      /\ \A i \in 1..Len(todo) - 1 : todo'[i] = todo[i + 1]
  BY <1>1, RestIs
<1>3. Sentence(todo') /\ (Checks(todo') => Checks(todo)) BY <1>1, RestKeepsRules
<1>4. todo' # <<>> <=> Len(todo) > 1 BY <1>2
<1>5. todo' # <<>> => todo'[1] = todo[2] BY <1>2, <1>4
<1>6. Sentence(todo)' BY <1>3 DEF Sentence, InitFollowed, SetsToken, SetsType, SetsOwn,
                              Performs, RetrieveFollowed, CheckFollowed, EndFollowed
<1>7. Checks(todo)' => Checks(todo) BY <1>3 DEF Checks
<1> QED BY <1>2, <1>4, <1>5, <1>6, <1>7 DEF TodoOK

\* What is due is due by the first call.
LEMMA NothingDue ==
  ASSUME ~Preparing', ~(todo' # <<>> /\ todo'[1].call = "retrieve_val")
  PROVE  Due'
BY DEF Preparing, Due, TokenDue, TypeDue, OwnDue, RequestDue, ValueDue, Next1

LEMMA InitStep ==
  ASSUME IInv, platform_api_init
  PROVE  IInv'
<1> DEFINE u == todo[1].arg
<1>1. TodoOK /\ Next1("init") /\ todo # <<>> BY CallsIs DEF IInv, platform_api_init, Next1
<1>2. /\ TodoOK' /\ (Checks(todo)' => Checks(todo))
      /\ Len(todo) \in Nat \ {0}
  BY <1>1, DoneRules DEF platform_api_init
<1>3. u \in Urls /\ SetsToken(todo, 2, u)
  <2>1. InitFollowed(todo, 1) /\ 1 + 1 = 2 BY <1>1, <1>2 DEF TodoOK, Sentence
  <2> QED BY <1>1, <2>1 DEF InitFollowed, Next1
<1>4. SetsToken(todo', 1, u)
  <2>1. todo \in Seq(CallSet) /\ todo' = Tail(todo) /\ 1 + 1 = 2
    BY <1>1 DEF TodoOK, platform_api_init, Done
  <2> QED BY <1>1, <1>3, <2>1, RestFollows
<1>5. /\ host_url' = u /\ own' = <<>> /\ response_buffer' = NULL
      /\ UNCHANGED <<bearer_token, query, http_client, lostClients, err, request, failures,
                     failedFetches>>
  BY <1>1 DEF platform_api_init, FreedResponse, TodoOK
<1> HIDE DEF u
<1>6. todo'[1].call = "set_token" BY <1>4 DEF SetsToken
<1>7. TypeOK'
  <2>1. <<>> \in Seq(Parameters) BY EmptySeq
  <2> QED BY <1>3, <1>5, <2>1 DEF IInv, TypeOK, Urls, Bodies
<1>8. Due'
  <2>1. "keys" \notin ToSet(<<>>) BY DEF ToSet
  <2>2. TokenDue' BY <1>3, <1>4, <1>5, <2>1
      DEF TokenDue, SetsToken, SetsType, SetsOwn, Performs
  <2> QED BY <1>6, <2>2 DEF Due, TypeDue, OwnDue, RequestDue, ValueDue, Next1
<1>9. QueryOwn'
  <2>1. ~Preparing BY <1>1 DEF Preparing, Next1
  <2>2. failures = 0 => query = <<>> BY <2>1 DEF IInv, QueryOwn
  <2>3. IsSuffix(<<>>, query) BY EmptyIsSuffix DEF IInv, TypeOK
  <2> QED BY <1>5, <2>2, <2>3 DEF QueryOwn, IsSuffix, IsPrefix, Reverse
<1>10. OpenClient'
  <2>1. ~Answering BY <1>1 DEF Answering, Next1
  <2> QED BY <1>5, <2>1 DEF IInv, OpenClient
<1>11. CheckBudget' BY <1>2, <1>5 DEF IInv, CheckBudget
<1>12. OwnParametersLast'
  BY <1>5 DEF IInv, OwnParametersLast
<1> QED BY <1>2, <1>7, <1>8, <1>9, <1>10, <1>11, <1>12 DEF IInv
LEMMA TokenStep ==
  ASSUME IInv, platform_api_set_token
  PROVE  IInv'
<1>1. TodoOK /\ Next1("set_token") /\ todo # <<>>
  BY CallsIs DEF IInv, platform_api_set_token, Next1
<1>2. TodoOK' /\ (Checks(todo)' => Checks(todo))
  BY <1>1, DoneRules DEF platform_api_set_token
<1>3. host_url \in Urls /\ SetsToken(todo, 1, host_url) /\ "keys" \notin ToSet(own)
  BY <1>1 DEF IInv, Due, TokenDue
<1>4. SetsType(todo', 1, host_url)
  <2>1. todo \in Seq(CallSet) /\ todo' = Tail(todo) /\ 1 + 1 = 2
    BY <1>1 DEF TodoOK, platform_api_set_token, Done
  <2>2. SetsType(todo, 2, host_url) BY <1>3, <2>1 DEF SetsToken
  <2> QED BY <1>1, <2>1, <2>2, RestFollows
<1>5. /\ bearer_token' = TRUE
      /\ UNCHANGED <<host_url, query, response_buffer, http_client, lostClients, err,
                     request, own, failures, failedFetches>>
  BY DEF platform_api_set_token, history
<1>6. todo'[1].call = "set_query_string" /\ todo'[1].arg = "type" BY <1>4 DEF SetsType
<1>7. TypeOK' BY <1>5 DEF IInv, TypeOK
<1>8. Due'
  <2>1. TypeDue' BY <1>3, <1>4, <1>5 DEF TypeDue, SetsType, SetsOwn, Performs
  <2> QED BY <1>6, <2>1 DEF Due, TokenDue, OwnDue, RequestDue, ValueDue, Next1
<1>9. QueryOwn'
  <2>1. Preparing BY <1>1 DEF Preparing, Next1
  <2>2. IsSuffix(own, query) /\ (failures = 0 => query = own) BY <2>1 DEF IInv, QueryOwn
  <2>3. todo' # <<>> => Preparing' BY <1>6 DEF Preparing
  <2>4. todo' # <<>>
    <3>1. Len(todo') > 0
      <4>1. Len(todo') \in Nat BY <1>2, LenProperties DEF TodoOK
      <4>2. 1 + 1 + 1 < Len(todo') BY <1>4 DEF SetsType, SetsOwn, Performs
      <4> QED BY <4>1, <4>2
    <3> QED BY <3>1
  <2> QED BY <1>5, <2>2, <2>3, <2>4 DEF QueryOwn
<1>10. OpenClient'
  <2>1. ~Answering BY <1>1 DEF Answering, Next1
  <2> QED BY <1>5, <2>1 DEF IInv, OpenClient
<1>11. CheckBudget' BY <1>2, <1>5 DEF IInv, CheckBudget
<1>12. OwnParametersLast' BY <1>5 DEF IInv, OwnParametersLast
<1> QED BY <1>2, <1>7, <1>8, <1>9, <1>10, <1>11, <1>12 DEF IInv

\* What a call to set a parameter does to the query.
LEMMA ParameterEffect ==
  ASSUME TypeOK, IsSuffix(own, query), failures = 0 => query = own,
         NEW p \in Parameters, AddParameter(p)
  PROVE  /\ query' \in Seq(Parameters) /\ own' \in Seq(Parameters)
         /\ IsSuffix(own', query') /\ (failures = 0 => query' = own')
         /\ ToSet(own') = ToSet(own) \cup {p}
<1>1. /\ query \in Seq(Parameters) /\ own \in Seq(Parameters)
      /\ query' = Append(query, p) /\ own' = Append(own, p)
  BY DEF TypeOK, AddParameter
<1> QED BY <1>1, AppendProperties, SuffixAppend, ToSetAppend

LEMMA ParameterStep ==
  ASSUME IInv, platform_api_set_query_string
  PROVE  IInv'
<1> DEFINE p == todo[1].arg
<1>1. TodoOK /\ Next1("set_query_string") /\ todo # <<>>
  BY CallsIs DEF IInv, platform_api_set_query_string, Next1
<1>2. TodoOK' /\ (Checks(todo)' => Checks(todo))
  BY <1>1, DoneRules DEF platform_api_set_query_string
<1>3. todo \in Seq(CallSet) /\ todo' = Tail(todo) /\ 1 + 1 = 2
  BY <1>1 DEF TodoOK, platform_api_set_query_string, Done
<1>4. IsSuffix(own, query) /\ (failures = 0 => query = own)
  <2>1. Preparing BY <1>1 DEF Preparing, Next1
  <2> QED BY <2>1 DEF IInv, QueryOwn
<1>5. /\ host_url \in Urls /\ "keys" \notin ToSet(own)
      /\ \/ p = "type" /\ SetsOwn(todo', 1, host_url)
         \/ p # "type" /\ p \in ParamsFor(host_url) /\ Performs(todo', 1, host_url)
  <2>1. CASE p = "type"
    <3>1. host_url \in Urls /\ SetsType(todo, 1, host_url) /\ "keys" \notin ToSet(own)
      BY <1>1, <2>1 DEF IInv, Due, TypeDue
    <3>2. SetsOwn(todo, 2, host_url) BY <1>3, <3>1 DEF SetsType
    <3> QED BY <1>1, <1>3, <2>1, <3>1, <3>2, RestFollows
  <2>2. CASE p # "type"
    <3>1. host_url \in Urls /\ SetsOwn(todo, 1, host_url) /\ "keys" \notin ToSet(own)
      BY <1>1, <2>2 DEF IInv, Due, OwnDue
    <3>2. Performs(todo, 2, host_url) /\ p \in ParamsFor(host_url)
      BY <1>3, <3>1 DEF SetsOwn
    <3> QED BY <1>1, <1>3, <2>2, <3>1, <3>2, RestFollows
  <2> QED BY <2>1, <2>2
<1>6. p \in Parameters BY <1>5 DEF ParamsFor, Parameters
<1>7. Head(todo).arg = p BY <1>1 DEF TodoOK
<1> HIDE DEF p
<1>8. /\ query' \in Seq(Parameters) /\ own' \in Seq(Parameters)
      /\ IsSuffix(own', query') /\ (failures = 0 => query' = own')
      /\ ToSet(own') = IF p = "sys_report" /\ err THEN ToSet(own) ELSE ToSet(own) \cup {p}
  <2>1. CASE p = "sys_report" /\ err
    <3>1. query' = query /\ own' = own
      BY <1>7, <2>1 DEF platform_api_set_query_string
    <3> QED BY <1>4, <2>1, <3>1 DEF IInv, TypeOK
  <2>2. CASE ~(p = "sys_report" /\ err)
    <3>1. AddParameter(p) BY <1>7, <2>2 DEF platform_api_set_query_string
    <3> QED BY <1>4, <1>6, <2>2, <3>1, ParameterEffect DEF IInv
  <2> QED BY <2>1, <2>2
<1>9. UNCHANGED <<host_url, bearer_token, response_buffer, http_client, lostClients, err,
                  request, failures, failedFetches>>
  BY DEF platform_api_set_query_string
<1>10. TypeOK' BY <1>8, <1>9 DEF IInv, TypeOK
<1>11. Due' /\ Preparing'
  <2>0. Len(todo') \in Nat BY <1>2, LenProperties DEF TodoOK
  <2>1. CASE p = "type"
    <3>1. SetsOwn(todo', 1, host_url) /\ "keys" \notin ToSet(own')
      BY <1>5, <1>8, <2>1
    <3>2. todo'[1].call = "set_query_string" /\ todo'[1].arg \in ParamsFor(host_url)
      BY <3>1 DEF SetsOwn
    <3>3. todo'[1].arg # "type" BY <3>2 DEF ParamsFor
    <3>4. OwnDue' BY <1>5, <1>9, <3>1 DEF OwnDue, SetsOwn, Performs
    <3>5. todo' # <<>>
      <4>1. 1 + 1 < Len(todo') BY <3>1 DEF SetsOwn, Performs
      <4> QED BY <2>0, <4>1
    <3> QED BY <3>2, <3>3, <3>4, <3>5
        DEF Due, TokenDue, TypeDue, RequestDue, ValueDue, Next1, Preparing
  <2>2. CASE p # "type"
    <3>1. Performs(todo', 1, host_url) /\ p \in ParamsFor(host_url) BY <1>5, <2>2
    <3>2. "keys" \in ToSet(own') <=> host_url = "fetch"
      BY <1>5, <1>8, <3>1 DEF ParamsFor, Urls
    <3>3. RequestDue' BY <1>5, <1>9, <3>1, <3>2 DEF RequestDue, Performs
    <3>4. todo'[1].call = "perform_request" BY <3>1 DEF Performs
    <3>5. todo' # <<>> BY <2>0, <3>1 DEF Performs
    <3> QED BY <3>3, <3>4, <3>5
        DEF Due, TokenDue, TypeDue, OwnDue, ValueDue, Next1, Preparing
  <2> QED BY <2>1, <2>2
<1>12. QueryOwn' BY <1>8, <1>9, <1>11 DEF QueryOwn
<1>13. OpenClient'
  <2>1. ~Answering BY <1>1 DEF Answering, Next1
  <2> QED BY <1>9, <2>1 DEF IInv, OpenClient
<1>14. CheckBudget' BY <1>2, <1>9 DEF IInv, CheckBudget
<1>15. OwnParametersLast' BY <1>9 DEF IInv, OwnParametersLast
<1> QED BY <1>2, <1>10, <1>11, <1>12, <1>13, <1>14, <1>15 DEF IInv

\* A request, answered with 200 or not, finds its own parameters at the end of
\* the query; the call after it takes the answer or cleans up.
LEMMA RequestDone ==
  ASSUME IInv, Calls("perform_request"), Done, NewClient,
         \E body \in Bodies : Receive(body),
         UNCHANGED <<host_url, own, failedFetches>>
  PROVE  /\ TodoOK' /\ Due' /\ ~Preparing' /\ OpenClient' /\ CheckBudget' /\ OwnParametersLast'
         /\ response_buffer' \in Bodies /\ http_client' \in BOOLEAN /\ lostClients' \in Nat
<1>0. PICK body \in Bodies : Receive(body) OBVIOUS
<1>1. TodoOK /\ Next1("perform_request") /\ todo # <<>>
  BY CallsIs DEF IInv, Next1
<1>2. /\ TodoOK' /\ (Checks(todo)' => Checks(todo))
      /\ Len(todo) \in Nat \ {0}
      /\ todo' # <<>> <=> Len(todo) > 1
      /\ todo' # <<>> => todo'[1] = todo[2]
  BY <1>1, DoneRules
<1>3. /\ host_url \in Urls /\ Performs(todo, 1, host_url)
      /\ "keys" \in ToSet(own) <=> host_url = "fetch"
  BY <1>1 DEF IInv, Due, RequestDue
<1>4. todo' # <<>> /\ todo'[1].call = AnswerCall(host_url)
  BY <1>2, <1>3 DEF Performs
<1>5. ~Preparing' /\ Answering'
  BY <1>4 DEF AnswerCall, Preparing, Answering
<1>6. Due'
  <2>1. /\ request'.url = host_url /\ request'.own = own /\ request'.body = body
        /\ host_url' = host_url /\ own' = own
    BY <1>0 DEF Receive
  <2>2. response_buffer' = body BY <1>0 DEF Receive, FreedResponse
  <2>3. Next1("retrieve_val")' => host_url = "fetch"
    BY <1>3, <1>4 DEF Next1, AnswerCall, Urls
  <2>4. ValueDue' BY <2>1, <2>2, <2>3 DEF ValueDue
  <2> QED BY <1>4, <2>4 DEF Due, TokenDue, TypeDue, OwnDue, RequestDue, Next1, AnswerCall
<1>7. OpenClient' /\ lostClients' \in Nat /\ http_client' \in BOOLEAN
  <2>1. ~Answering BY <1>1 DEF Answering, Next1
  <2>2. /\ lostClients \in Nat /\ failedFetches \in Nat /\ failedFetches' = failedFetches
        /\ lostClients <= failedFetches
        /\ http_client => lostClients < failedFetches
    BY <2>1 DEF IInv, TypeOK, OpenClient
  <2>3. lostClients' = lostClients + (IF http_client THEN 1 ELSE 0) /\ http_client' = TRUE
    BY DEF NewClient
  <2>4. lostClients' \in Nat /\ lostClients' <= failedFetches'
    BY <2>2, <2>3
  <2> QED BY <1>5, <2>3, <2>4 DEF OpenClient
<1>8. CheckBudget' BY <1>2 DEF IInv, CheckBudget
<1>9. OwnParametersLast'
  <2>1. Preparing BY <1>1 DEF Preparing, Next1
  <2>2. IsSuffix(own, query) /\ (failures = 0 => query = own) BY <2>1 DEF IInv, QueryOwn
  <2>3. failures \in Nat BY DEF IInv, TypeOK
  <2>4. /\ request'.url = host_url /\ request'.params = query /\ request'.own = own
        /\ request'.afterFailure = (failures > 0)
    BY <1>0 DEF Receive
  <2>5. ~(failures > 0) => failures = 0 BY <2>3
  <2>6. IsSuffix(request.own, request.params)'
    BY <2>2, <2>4 DEF IsSuffix, IsPrefix, Reverse
  <2>7. request'.url = IF "keys" \in ToSet(request'.own) THEN "fetch" ELSE "update"
    BY <1>3, <2>4 DEF Urls
  <2>8. (request.url = IF "keys" \in ToSet(request.own) THEN "fetch" ELSE "update")'
    BY <2>7 DEF ToSet
  <2> QED BY <2>2, <2>4, <2>5, <2>6, <2>8 DEF OwnParametersLast
<1>10. response_buffer' \in Bodies BY <1>0 DEF Receive, FreedResponse, Bodies
<1> QED BY <1>2, <1>5, <1>6, <1>7, <1>8, <1>9, <1>10

LEMMA SuccessStep ==
  ASSUME IInv, RequestSucceeds
  PROVE  IInv'
<1>1. /\ TodoOK' /\ Due' /\ ~Preparing' /\ OpenClient' /\ CheckBudget' /\ OwnParametersLast'
      /\ response_buffer' \in Bodies /\ http_client' \in BOOLEAN /\ lostClients' \in Nat
  <2>1. /\ Calls("perform_request") /\ Done /\ NewClient /\ \E body \in Bodies : Receive(body)
        /\ UNCHANGED <<host_url, own, failedFetches>>
    BY DEF RequestSucceeds
  <2> QED BY <2>1, RequestDone
<1>2. query' = <<>> /\ failures' = 0 /\ UNCHANGED <<host_url, bearer_token, err, own, failedFetches>>
  BY DEF RequestSucceeds, QueryFreed
<1>3. TypeOK'
  <2>1. query' \in Seq(Parameters) BY <1>2, EmptySeq
  <2>2. failures' \in 0..MAX_FAILURES BY <1>2, ClientAssumption
  <2> QED BY <1>1, <1>2, <2>1, <2>2 DEF IInv, TypeOK
<1>4. QueryOwn' BY <1>1, <1>2 DEF QueryOwn
<1> QED BY <1>1, <1>3, <1>4 DEF IInv

LEMMA FailureStep ==
  ASSUME IInv, RequestFails
  PROVE  IInv'
<1>1. /\ TodoOK' /\ Due' /\ ~Preparing' /\ OpenClient' /\ CheckBudget' /\ OwnParametersLast'
      /\ response_buffer' \in Bodies /\ http_client' \in BOOLEAN /\ lostClients' \in Nat
  <2>1. /\ Calls("perform_request") /\ Done /\ NewClient /\ \E body \in Bodies : Receive(body)
        /\ UNCHANGED <<host_url, own, failedFetches>>
    BY DEF RequestFails
  <2> QED BY <2>1, RequestDone
<1>2. /\ query' = query /\ failures < MAX_FAILURES /\ failures' = failures + 1
      /\ UNCHANGED <<host_url, bearer_token, err, own, failedFetches>>
  BY DEF RequestFails
<1>3. failures \in Nat /\ failures' \in 0..MAX_FAILURES /\ failures' # 0
  BY <1>2, ClientAssumption DEF IInv, TypeOK
<1>4. TypeOK' BY <1>1, <1>2, <1>3 DEF IInv, TypeOK
<1>5. QueryOwn' BY <1>1, <1>3 DEF QueryOwn
<1> QED BY <1>1, <1>4, <1>5 DEF IInv

LEMMA ValueStep ==
  ASSUME IInv, platform_api_retrieve_val, response_buffer # "other"
  PROVE  IInv'
<1>1. TodoOK /\ Next1("retrieve_val") /\ todo # <<>>
  BY CallsIs DEF IInv, platform_api_retrieve_val, Next1
<1>2. /\ err' = (response_buffer # "value") /\ Done
      /\ UNCHANGED <<host_url, bearer_token, query, response_buffer, http_client, lostClients,
                     request, own, failures, failedFetches>>
  BY DEF platform_api_retrieve_val, library, history
<1>3. /\ TodoOK' /\ (Checks(todo)' => Checks(todo))
      /\ Len(todo) \in Nat \ {0}
      /\ todo' # <<>> <=> Len(todo) > 1
      /\ todo' # <<>> => todo'[1] = todo[2]
  BY <1>1, <1>2, DoneRules
<1>4. todo' # <<>> /\ todo'[1].call \in {"check", "cleanup"}
  <2>1. RetrieveFollowed(todo, 1) /\ 1 + 1 = 2 BY <1>1, <1>3 DEF TodoOK, Sentence
  <2>2. 1 < Len(todo) /\ todo[2].call \in {"check", "cleanup"}
    BY <1>1, <2>1 DEF RetrieveFollowed, Next1
  <2> QED BY <1>3, <2>2
<1>5. ~Preparing /\ ~Preparing' /\ Answering'
  BY <1>1, <1>4 DEF Preparing, Answering, Next1
<1>6. TypeOK'
  <2>1. err' \in BOOLEAN BY <1>2
  <2> QED BY <1>2, <2>1 DEF IInv, TypeOK
<1>7. Due' BY <1>4, <1>5, NothingDue
<1>8. QueryOwn' BY <1>2, <1>5 DEF IInv, QueryOwn
<1>9. OpenClient' BY <1>2, <1>5 DEF IInv, OpenClient
<1>10. CheckBudget' BY <1>2, <1>3 DEF IInv, CheckBudget
<1>11. OwnParametersLast' BY <1>2 DEF IInv, OwnParametersLast
<1> QED BY <1>3, <1>6, <1>7, <1>8, <1>9, <1>10, <1>11 DEF IInv

\* Behind a check there is the cleanup alone.  The report of a failed fetch and
\* the conversion of its pointer come before it, and the report is counted.
LEMMA CheckStep ==
  ASSUME IInv, CheckError
  PROVE  IInv'
<1> DEFINE t == Tail(todo)
<1>1. TodoOK /\ Next1("check") /\ todo # <<>>
  BY CallsIs DEF IInv, CheckError, Next1
<1>2. /\ t \in Seq(CallSet) /\ Len(t) = 1 /\ t[1].call = "cleanup" /\ Sentence(t) /\ ~Checks(t)
  <2>1. todo \in Seq(CallSet) /\ Sentence(todo) BY <1>1 DEF TodoOK
  <2>2. /\ Len(todo) \in Nat \ {0} /\ t \in Seq(CallSet) /\ Len(t) = Len(todo) - 1
        /\ \A i \in 1..Len(todo) - 1 : t[i] = todo[i + 1]
    BY <1>1, <2>1, RestIs
  <2>3. CheckFollowed(todo, 1) BY <2>1, <2>2 DEF Sentence
  <2>4. Len(todo) = 1 + 1 /\ todo[1 + 1].call = "cleanup"
    BY <1>1, <2>3 DEF CheckFollowed, Next1
  <2>5. Len(t) = 1 /\ t[1].call = "cleanup" BY <2>2, <2>4
  <2>6. Sentence(t) BY <1>1, <2>1, RestKeepsRules
  <2>7. ~Checks(t) BY <2>5 DEF Checks
  <2> QED BY <2>2, <2>5, <2>6, <2>7
<1>3. failedFetches \in Nat /\ failedFetches < MAX_FETCHES
  <2>1. Len(todo) \in Nat \ {0} BY <1>1, RestIs DEF TodoOK
  <2>2. Checks(todo) BY <1>1, <2>1 DEF Checks, Next1
  <2> QED BY <2>2 DEF IInv, CheckBudget, TypeOK
<1>4. /\ failedFetches' = failedFetches + (IF err THEN 1 ELSE 0)
      /\ todo' = (IF err THEN SystemReport \o <<Call("atoi", NULL)>> ELSE <<>>) \o t
      /\ UNCHANGED <<host_url, bearer_token, query, response_buffer, http_client, lostClients,
                     err, request, own, failures>>
  BY DEF CheckError, library
<1> HIDE DEF t
<1>5. /\ todo' \in Seq(CallSet) /\ todo' # <<>> /\ Sentence(todo') /\ ~Checks(todo')
      /\ todo'[1].call = IF err THEN "init" ELSE "cleanup"
  <2>1. CASE err
    <3> DEFINE c == Call("atoi", NULL)
               r == <<c>> \o t
    <3>1. c \in CallSet /\ c.call = "atoi" BY CallFields DEF Names
    <3> HIDE DEF c
    <3>2. <<c>> \in Seq(CallSet) /\ Len(<<c>>) = 1 BY <3>1
    <3>3. r \in Seq(CallSet) /\ Len(r) = 2 /\ r[1] = c /\ r[2] = t[1]
      <4>1. /\ r \in Seq(CallSet) /\ Len(r) = Len(<<c>>) + Len(t)
            /\ \A i \in 1..Len(<<c>>) + Len(t) :
                 r[i] = IF i <= Len(<<c>>) THEN <<c>>[i] ELSE t[i - Len(<<c>>)]
        BY <1>2, <3>2, ConcatProperties
      <4>2. Len(<<c>>) = 1 /\ Len(t) = 1 /\ <<c>>[1] = c BY <1>2
      <4> HIDE DEF r
      <4> QED BY <4>1, <4>2
    <3> HIDE DEF r
    <3>4. Sentence(r) /\ ~Checks(r)
      <4>1. /\ r[1].call = "atoi" /\ r[2].call = "cleanup"
            /\ \A i \in 1..Len(r) : i \in {1, 2}
        BY <1>2, <3>1, <3>3
      <4>2. \A i \in 1..Len(r) : r[i].call # "check" /\ r[i].call # "init"
                                 /\ r[i].call # "retrieve_val"
        BY <4>1
      <4>3. \A i \in 1..Len(r) : EndFollowed(r, i)
        BY <3>3, <4>1 DEF EndFollowed
      <4> QED BY <4>2, <4>3 DEF Sentence, InitFollowed, RetrieveFollowed, CheckFollowed, Checks
    <3>5. /\ SystemReport \o r \in Seq(CallSet) /\ SystemReport \o r # <<>>
          /\ (SystemReport \o r)[1].call = "init"
          /\ Sentence(SystemReport \o r) /\ ~Checks(SystemReport \o r)
      BY <3>1, <3>3, <3>4, NestedReport
    <3>6. todo' = (SystemReport \o <<c>>) \o t BY <1>4, <2>1 DEF c
    <3>7. SystemReport \in Seq(CallSet) BY RoutineRules DEF Routines
    <3>8. todo' = SystemReport \o r
      BY <1>2, <3>2, <3>6, <3>7, ConcatAssociative DEF r
    <3> QED BY <2>1, <3>5, <3>8
  <2>2. CASE ~err
    <3>1. todo' = <<>> \o t BY <1>4, <2>2
    <3>2. todo' = t BY <1>2, <3>1
    <3>3. t # <<>> BY <1>2
    <3> QED BY <1>2, <2>2, <3>2, <3>3
  <2> QED BY <2>1, <2>2
<1>6. TodoOK' /\ ~Checks(todo)'
  BY <1>5 DEF TodoOK, Checks, Sentence, InitFollowed, SetsToken, SetsType, SetsOwn,
              Performs, RetrieveFollowed, CheckFollowed, EndFollowed
<1>7. ~Preparing /\ ~Preparing'
  BY <1>1, <1>5 DEF Preparing, Next1
<1>8. TypeOK'
  <2>1. failedFetches' \in 0..MAX_FETCHES BY <1>3, <1>4, ClientAssumption
  <2> QED BY <1>4, <2>1 DEF IInv, TypeOK
<1>9. Due'
  <2>1. ~(todo' # <<>> /\ todo'[1].call = "retrieve_val") BY <1>5
  <2> QED BY <1>7, <2>1, NothingDue
<1>10. QueryOwn' BY <1>4, <1>7 DEF IInv, QueryOwn
<1>11. OpenClient'
  <2>1. lostClients \in Nat /\ lostClients <= failedFetches BY DEF IInv, TypeOK, OpenClient
  <2>2. CASE err
    <3>1. failedFetches' = failedFetches + 1 BY <1>4, <2>2
    <3>2. lostClients' = lostClients BY <1>4
    <3>3. lostClients' < failedFetches' /\ lostClients' <= failedFetches'
      BY <1>3, <2>1, <3>1, <3>2
    <3> QED BY <3>3 DEF OpenClient
  <2>3. CASE ~err
    <3>1. failedFetches' = failedFetches BY <1>3, <1>4, <2>3
    <3>2. Answering' BY <1>5, <2>3 DEF Answering
    <3> QED BY <1>4, <2>1, <3>1, <3>2 DEF OpenClient
  <2> QED BY <2>2, <2>3
<1>12. CheckBudget' BY <1>6 DEF CheckBudget
<1>13. OwnParametersLast' BY <1>4 DEF IInv, OwnParametersLast
<1> QED BY <1>6, <1>8, <1>9, <1>10, <1>11, <1>12, <1>13 DEF IInv

\* At the end of a routine, or between its two requests, nothing is due.
LEMMA EndRules ==
  ASSUME TodoOK, Next1("cleanup") \/ Next1("parse") \/ Next1("atoi"), Done
  PROVE  /\ TodoOK' /\ (Checks(todo)' => Checks(todo))
         /\ ~Preparing /\ ~Preparing' /\ Due'
<1>1. todo # <<>> /\ todo[1].call \in {"atoi", "cleanup", "parse"} BY DEF Next1
<1>2. /\ TodoOK' /\ (Checks(todo)' => Checks(todo))
      /\ Len(todo) \in Nat \ {0}
      /\ todo' # <<>> <=> Len(todo) > 1
      /\ todo' # <<>> => todo'[1] = todo[2]
  BY <1>1, DoneRules
<1>3. todo' # <<>> => todo'[1].call \in {"init", "atoi", "cleanup", "parse"}
  <2>1. EndFollowed(todo, 1) /\ 1 + 1 = 2 BY <1>2 DEF TodoOK, Sentence
  <2>2. Len(todo) > 1 => todo[2].call \in {"init", "atoi", "cleanup", "parse"}
    BY <1>1, <1>2, <2>1 DEF EndFollowed
  <2> QED BY <1>2, <2>2
<1>4. ~Preparing /\ ~Preparing' BY <1>1, <1>3 DEF Preparing
<1>5. ~(todo' # <<>> /\ todo'[1].call = "retrieve_val") BY <1>3
<1> QED BY <1>2, <1>4, <1>5, NothingDue

LEMMA ParseStep ==
  ASSUME IInv, Calls("parse") \/ Calls("atoi"), Done, UNCHANGED <<library, err, history>>
  PROVE  IInv'
<1>1. TodoOK /\ (Next1("parse") \/ Next1("atoi")) BY CallsIs DEF IInv
<1>2. TodoOK' /\ (Checks(todo)' => Checks(todo)) /\ ~Preparing /\ ~Preparing' /\ Due'
  BY <1>1, EndRules
<1>3. UNCHANGED <<host_url, bearer_token, query, response_buffer, http_client, lostClients,
                  err, request, own, failures, failedFetches>>
  BY DEF library, history
<1>4. TypeOK' BY <1>3 DEF IInv, TypeOK
<1>5. QueryOwn' BY <1>2, <1>3 DEF IInv, QueryOwn
<1>6. OpenClient'
  <2>1. ~Answering BY <1>1 DEF Answering, Next1
  <2> QED BY <1>3, <2>1 DEF IInv, OpenClient
<1>7. CheckBudget' BY <1>2, <1>3 DEF IInv, CheckBudget
<1>8. OwnParametersLast' BY <1>3 DEF IInv, OwnParametersLast
<1> QED BY <1>2, <1>4, <1>5, <1>6, <1>7, <1>8 DEF IInv

LEMMA CleanupStep ==
  ASSUME IInv, platform_api_cleanup
  PROVE  IInv'
<1>1. TodoOK /\ Next1("cleanup") BY CallsIs DEF IInv, platform_api_cleanup
<1>2. TodoOK' /\ (Checks(todo)' => Checks(todo)) /\ ~Preparing /\ ~Preparing' /\ Due'
  BY <1>1, EndRules DEF platform_api_cleanup
<1>3. /\ response_buffer' = NULL /\ host_url' = NULL /\ bearer_token' = FALSE
      /\ http_client' = FALSE
      /\ UNCHANGED <<query, lostClients, err, request, own, failures, failedFetches>>
  BY DEF platform_api_cleanup, FreedResponse, ClientFreed, history
<1>4. TypeOK' BY <1>3 DEF IInv, TypeOK, Bodies
<1>5. QueryOwn' BY <1>2, <1>3 DEF IInv, QueryOwn
<1>6. OpenClient' BY <1>3 DEF IInv, OpenClient
<1>7. CheckBudget' BY <1>2, <1>3 DEF IInv, CheckBudget
<1>8. OwnParametersLast' BY <1>3 DEF IInv, OwnParametersLast
<1> QED BY <1>2, <1>4, <1>5, <1>6, <1>7, <1>8 DEF IInv

LEMMA StartStep ==
  ASSUME IInv, Start
  PROVE  IInv'
<1>1. /\ todo = <<>> /\ todo' \in Routines
      /\ todo' = FetchNumber => failedFetches < MAX_FETCHES
      /\ UNCHANGED <<host_url, bearer_token, query, response_buffer, http_client, lostClients,
                     err, request, own, failures, failedFetches>>
  BY DEF Start, library, history
<1>2. /\ todo' \in Seq(CallSet) /\ Len(todo') > 0 /\ todo'[1].call = "init" /\ Sentence(todo')
      /\ Checks(todo') => todo' = FetchNumber
  BY <1>1, RoutineRules
<1>3. TodoOK' /\ (Checks(todo)' => todo' = FetchNumber)
  BY <1>2 DEF TodoOK, Checks, Sentence, InitFollowed, SetsToken, SetsType, SetsOwn,
              Performs, RetrieveFollowed, CheckFollowed, EndFollowed
<1>4. ~Preparing /\ ~Preparing' /\ ~Answering BY <1>1, <1>2 DEF Preparing, Answering
<1>5. TypeOK' BY <1>1 DEF IInv, TypeOK
<1>6. Due' BY <1>2, <1>4, NothingDue
<1>7. QueryOwn' BY <1>1, <1>4 DEF IInv, QueryOwn
<1>8. OpenClient' BY <1>1, <1>4 DEF IInv, OpenClient
<1>9. CheckBudget' BY <1>1, <1>3 DEF IInv, CheckBudget
<1>10. OwnParametersLast' BY <1>1 DEF IInv, OwnParametersLast
<1> QED BY <1>3, <1>5, <1>6, <1>7, <1>8, <1>9, <1>10 DEF IInv

\* Before the first routine nothing is due, and the query is empty.
LEMMA InitialState == Init => IInv
<1> SUFFICES ASSUME Init PROVE IInv
  OBVIOUS
<1>1. todo = <<>> BY DEF Init
<1>2. TypeOK
  <2>1. 0 \in 0..MAX_FAILURES /\ 0 \in 0..MAX_FETCHES BY ClientAssumption
  <2>2. <<>> \in Seq(Parameters) BY EmptySeq
  <2> QED BY <2>1, <2>2 DEF Init, TypeOK, Bodies
<1>3. TodoOK BY <1>1, EmptySeq DEF TodoOK, Sentence
<1>4. Due BY <1>1 DEF Due, TokenDue, TypeDue, OwnDue, RequestDue, ValueDue, Next1
<1>5. QueryOwn BY <1>1 DEF Init, QueryOwn, Preparing
<1>6. OpenClient BY DEF Init, OpenClient
<1>7. CheckBudget BY <1>1 DEF CheckBudget, Checks
<1>8. OwnParametersLast BY DEF Init, OwnParametersLast
<1> QED BY <1>2, <1>3, <1>4, <1>5, <1>6, <1>7, <1>8 DEF IInv

\* A restart begins anew.
LEMMA RestartState == Panic => IInv'
<1>1. Init' => IInv' BY InitialState, PTL
<1>2. Panic => Init' BY DEF Panic, Init
<1> QED BY <1>1, <1>2

LEMMA NextStep ==
  ASSUME IInv, [Next]_vars
  PROVE  IInv'
<1>1. CASE Start BY <1>1, StartStep
<1>2. CASE platform_api_init BY <1>2, InitStep
<1>3. CASE platform_api_set_token BY <1>3, TokenStep
<1>4. CASE platform_api_set_query_string BY <1>4, ParameterStep
<1>5. CASE RequestSucceeds BY <1>5, SuccessStep
<1>6. CASE RequestFails BY <1>6, FailureStep
<1>7. CASE platform_api_retrieve_val
  <2>1. CASE response_buffer = "other"
    <3>1. Panic BY <1>7, <2>1 DEF platform_api_retrieve_val
    <3> QED BY <3>1, RestartState
  <2>2. CASE response_buffer # "other" BY <1>7, <2>2, ValueStep
  <2> QED BY <2>1, <2>2
<1>8. CASE CheckError BY <1>8, CheckStep
<1>9. CASE ParseReport \/ ConvertUnset
  <2>1. CASE (Calls("parse") \/ Calls("atoi")) /\ Done /\ UNCHANGED <<library, err, history>>
    BY <2>1, ParseStep
  <2>2. CASE Panic BY <2>2, RestartState
  <2> QED BY <1>9, <2>1, <2>2 DEF ParseReport, ConvertUnset
<1>10. CASE platform_api_cleanup BY <1>10, CleanupStep
<1>11. CASE UNCHANGED vars
  <2>1. UNCHANGED <<host_url, bearer_token, query, response_buffer, http_client, lostClients,
                    todo, err, request, own, failures, failedFetches>>
    BY <1>11 DEF vars, library, history
  <2>2. TypeOK' BY <2>1 DEF IInv, TypeOK
  <2>3. TodoOK'
    BY <2>1 DEF IInv, TodoOK, Sentence, InitFollowed, SetsToken, SetsType, SetsOwn, Performs,
                RetrieveFollowed, CheckFollowed, EndFollowed
  <2>4. Due'
    <3>1. TokenDue' /\ TypeDue' /\ OwnDue' /\ RequestDue'
      BY <2>1 DEF IInv, Due, TokenDue, TypeDue, OwnDue, RequestDue, Next1, SetsToken,
                  SetsType, SetsOwn, Performs, ToSet
    <3>2. ValueDue' BY <2>1 DEF IInv, Due, ValueDue, Next1
    <3> QED BY <3>1, <3>2 DEF Due
  <2>5. QueryOwn'
    BY <2>1 DEF IInv, QueryOwn, Preparing, IsSuffix, IsPrefix, Reverse
  <2>6. OpenClient' BY <2>1 DEF IInv, OpenClient, Answering
  <2>7. CheckBudget' BY <2>1 DEF IInv, CheckBudget, Checks
  <2>8. OwnParametersLast'
    BY <2>1 DEF IInv, OwnParametersLast, IsSuffix, IsPrefix, Reverse, ToSet
  <2> QED BY <2>2, <2>3, <2>4, <2>5, <2>6, <2>7, <2>8 DEF IInv
<1> QED BY <1>1, <1>2, <1>3, <1>4, <1>5, <1>6, <1>7, <1>8, <1>9, <1>10, <1>11 DEF Next

-----------------------------------------------------------------------------
(* The theorems *)

\* What each call leaves for the next, nested reports, failed requests and
\* restarts included, is invariant.
THEOREM Invariance == Spec => []IInv
<1>1. Init => IInv BY InitialState
<1>2. IInv /\ [Next]_vars => IInv' BY NextStep
<1> QED BY <1>1, <1>2, PTL DEF Spec

\* The variables keep their types; the failures counted stay within their bounds.
THEOREM TypeCorrect == Spec => []TypeOK
<1>1. IInv => TypeOK BY DEF IInv
<1> QED BY <1>1, Invariance, PTL

\* However many requests failed before and whatever reports are nested, a request
\* goes to the endpoint its parameters are meant for, and these come last.
THEOREM RequestsKeepOwnParameters == Spec => []OwnParametersLast
<1>1. IInv => OwnParametersLast BY DEF IInv
<1> QED BY <1>1, Invariance, PTL

\* platform_api_retrieve_val reads the body that the last request has received,
\* and this is the request of its own routine, however many requests failed and
\* whatever reports came between.
THEOREM ValuesAreOwn == Spec => []ValueOfOwnRequest
<1>1. IInv => ValueOfOwnRequest
  <2>1. ASSUME IInv, Calls("retrieve_val")
        PROVE  /\ response_buffer = request.body
               /\ request.own = own /\ request.url = "fetch" /\ host_url = "fetch"
    <3>1. Next1("retrieve_val") BY <2>1, CallsIs DEF IInv
    <3> QED BY <2>1, <3>1 DEF IInv, Due, ValueDue
  <2> QED BY <2>1 DEF ValueOfOwnRequest
<1> QED BY <1>1, Invariance, PTL

\* A client handle is lost only to the report of a fetch that found no value.
THEOREM ClientsLostByReports == Spec => []LostByReportsOnly
<1>1. IInv => LostByReportsOnly BY DEF IInv, OpenClient, LostByReportsOnly
<1> QED BY <1>1, Invariance, PTL

=============================================================================
