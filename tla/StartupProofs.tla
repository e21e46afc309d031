--------------------------- MODULE StartupProofs ---------------------------
(***************************************************************************)
(* What is proved of Startup and Policy, for every set of files, contents, *)
(* skills and questions: how the policy decides, that the policy of a run  *)
(* is that of one file as a whole, and that a run has the skills it asked  *)
(* for.                                                                    *)
(***************************************************************************)
EXTENDS Startup, TLAPS, SequenceTheorems, WellFoundedInduction

-----------------------------------------------------------------------------
(***************************************************************************)
(* The first of several results that is not "no".                          *)
(***************************************************************************)
Outcomes == {"yes", "no", "error"}

\* Every set of numbers that is not empty has a least one.
LEMMA LeastNumber ==
    ASSUME NEW T \in SUBSET Nat, T # {}
    PROVE  \E m \in T : \A n \in T : m <= n
  <1>1. PICK m \in T : \A n \in T : ~(<<n, m>> \in OpToRel(<, Nat))
    BY NatLessThanWellFounded, WFMin
  <1>2. \A n \in T : n \in Nat /\ m \in Nat /\ ~(n < m)
    BY <1>1 DEF OpToRel
  <1> QED BY <1>2

\* FirstHit is one of the results, and "no" only if all of them are.
LEMMA FirstHitFacts ==
    ASSUME NEW n \in Nat, NEW results, DOMAIN results = 1..n,
           \A i \in 1..n : results[i] \in Outcomes
    PROVE  /\ FirstHit(results) \in Outcomes
           /\ FirstHit(results) = "no" <=> \A i \in 1..n : results[i] = "no"
           /\ FirstHit(results) # "no" => \E i \in 1..n : results[i] = FirstHit(results)
  <1> DEFINE hits == {i \in DOMAIN results : results[i] # "no"}
             first == CHOOSE i \in hits : \A j \in hits : i <= j
  <1>1. FirstHit(results) = IF hits = {} THEN "no" ELSE results[first]
    BY DEF FirstHit
  <1>2. hits \in SUBSET Nat /\ \A i \in hits : i \in 1..n /\ results[i] # "no"
    OBVIOUS
  <1>3. CASE hits = {}
    <2>1. \A i \in 1..n : results[i] = "no"
      BY <1>3
    <2> HIDE DEF hits, first
    <2> QED BY <1>1, <1>3, <2>1 DEF Outcomes
  <1>4. CASE hits # {}
    <2>1. \E i \in hits : \A j \in hits : i <= j
      <3> HIDE DEF hits
      <3> QED BY <1>2, <1>4, LeastNumber
    <2>2. first \in hits
      BY <2>1
    <2> HIDE DEF hits, first
    <2> QED BY <1>1, <1>2, <1>4, <2>2
  <1> QED BY <1>3, <1>4

-----------------------------------------------------------------------------
(***************************************************************************)
(* Rules that are asked in their order.                                    *)
(***************************************************************************)
\* What the rules from the i-th on decide, by what each of them says.
Deciding(n, hits, verdicts, d) ==
    [i \in 1..(n + 1) |->
        IF i > n THEN "Deny"
        ELSE CASE hits[i] = "no" -> d[i + 1]
               [] hits[i] = "error" -> "Error"
               [] OTHER -> verdicts[i]]

\* There is such a function: it looks for the first that does not say "no".
LEMMA DecidingExists ==
    ASSUME NEW n \in Nat, NEW hits, NEW verdicts
    PROVE  \E d : d = Deciding(n, hits, verdicts, d)
  <1> DEFINE Later(i) == {j \in i..n : hits[j] # "no"}
             Least(S) == CHOOSE m \in S : \A k \in S : m <= k
             Said(m) == IF hits[m] = "error" THEN "Error" ELSE verdicts[m]
             d == [i \in 1..(n + 1) |-> IF Later(i) = {} THEN "Deny" ELSE Said(Least(Later(i)))]
             e == Deciding(n, hits, verdicts, d)
  <1>1. ASSUME NEW i \in 1..(n + 1), i > n PROVE d[i] = e[i]
    <2>1. Later(i) = {}
      BY <1>1
    <2> QED BY <1>1, <2>1 DEF Deciding
  <1>2. ASSUME NEW i \in 1..n, hits[i] = "no" PROVE d[i] = e[i]
    <2>1. i + 1 \in 1..(n + 1) /\ i \in 1..(n + 1) /\ ~(i > n)
      OBVIOUS
    <2>2. Later(i) = Later(i + 1)
      BY <1>2
    <2>3. d[i] = d[i + 1]
      <3> HIDE DEF Later, Least, Said
      <3> QED BY <2>1, <2>2
    <2>4. e[i] = d[i + 1]
      <3> HIDE DEF d
      <3> QED BY <1>2, <2>1 DEF Deciding
    <2> QED BY <2>3, <2>4
  <1>3. ASSUME NEW i \in 1..n, hits[i] # "no" PROVE d[i] = e[i]
    <2>1. i \in 1..(n + 1) /\ ~(i > n) /\ i \in Later(i) /\ \A k \in Later(i) : i <= k /\ k \in Nat
      BY <1>3
    <2>2. Least(Later(i)) = i
      <3> HIDE DEF Later
      <3>1. Least(Later(i)) \in Later(i) /\ \A k \in Later(i) : Least(Later(i)) <= k
        BY <2>1
      <3> HIDE DEF Least
      <3> QED BY <2>1, <3>1
    <2>3. d[i] = Said(i)
      <3> HIDE DEF Later, Least, Said
      <3> QED BY <2>1, <2>2
    <2>4. e[i] = Said(i)
      <3> HIDE DEF d
      <3> QED BY <1>3, <2>1 DEF Deciding
    <2> QED BY <2>3, <2>4
  <1>4. \A i \in 1..(n + 1) : d[i] = e[i]
    <2> HIDE DEF d, e
    <2>1. ASSUME NEW i \in 1..(n + 1) PROVE i > n \/ i \in 1..n
      OBVIOUS
    <2> QED BY <1>1, <1>2, <1>3, <2>1
  <1>5. d = e
    <2>1. d = [i \in 1..(n + 1) |-> d[i]] /\ e = [i \in 1..(n + 1) |-> e[i]]
      BY DEF Deciding
    <2> HIDE DEF d, e
    <2> QED BY <1>4, <2>1
  <1> HIDE DEF d
  <1> QED BY <1>5

\* Every such function says what the first rule says that does not say "no".
LEMMA DecidingFacts ==
    ASSUME NEW n \in Nat, NEW hits, NEW verdicts,
           \A i \in 1..n : hits[i] \in Outcomes,
           NEW d, d = Deciding(n, hits, verdicts, d)
    PROVE  d[1] = "Allow" <=> \E i \in 1..n : /\ hits[i] = "yes" /\ verdicts[i] = "Allow"
                                              /\ \A j \in 1..(i - 1) : hits[j] = "no"
  <1>1. \A i \in 1..(n + 1) :
           d[i] = IF i > n THEN "Deny"
                  ELSE IF hits[i] = "no" THEN d[i + 1]
                  ELSE IF hits[i] = "error" THEN "Error" ELSE verdicts[i]
    BY DEF Deciding
  <1>2. ASSUME NEW m \in 1..(n + 1), \A j \in 1..(m - 1) : hits[j] = "no"
        PROVE  d[1] = d[m]
    <2> DEFINE T == {i \in 1..m : d[i] # d[1]}
    <2>1. SUFFICES ASSUME T # {} PROVE FALSE
      BY <2>1
    <2>2. PICK i \in T : \A k \in T : i <= k
      <3>1. T \in SUBSET Nat
        OBVIOUS
      <3> HIDE DEF T
      <3> QED BY <2>1, <3>1, LeastNumber
    <2>3. i \in 1..m /\ d[i] # d[1] /\ i # 1
      BY <2>2
    <2>4. i - 1 \in 1..m /\ i - 1 \in 1..(m - 1) /\ i - 1 \in 1..(n + 1) /\ ~(i <= i - 1) /\ ~(i - 1 > n)
      BY <2>3
    <2>5. d[i - 1] = d[1]
      BY <2>2, <2>4
    <2>6. d[i - 1] = d[(i - 1) + 1] /\ (i - 1) + 1 = i
      BY <1>1, <1>2, <2>3, <2>4
    <2> QED BY <2>3, <2>5, <2>6
  <1>3. ASSUME NEW i \in 1..n, \A j \in 1..(i - 1) : hits[j] = "no", hits[i] # "no"
        PROVE  d[1] = IF hits[i] = "error" THEN "Error" ELSE verdicts[i]
    <2>1. i \in 1..(n + 1) /\ ~(i > n)
      OBVIOUS
    <2>2. d[1] = d[i]
      BY <1>2, <1>3, <2>1
    <2> QED BY <1>1, <1>3, <2>1, <2>2
  <1>4. ASSUME NEW i \in 1..n, hits[i] = "yes", verdicts[i] = "Allow",
               \A j \in 1..(i - 1) : hits[j] = "no"
        PROVE  d[1] = "Allow"
    BY <1>3, <1>4
  <1>5. ASSUME d[1] = "Allow"
        PROVE  \E i \in 1..n : /\ hits[i] = "yes" /\ verdicts[i] = "Allow"
                               /\ \A j \in 1..(i - 1) : hits[j] = "no"
    <2> DEFINE T == {i \in 1..n : hits[i] # "no"}
    <2>1. T # {}
      <3>1. SUFFICES ASSUME T = {} PROVE FALSE
        OBVIOUS
      <3>2. \A j \in 1..((n + 1) - 1) : hits[j] = "no"
        BY <3>1
      <3>3. n + 1 \in 1..(n + 1) /\ n + 1 > n
        OBVIOUS
      <3>4. d[1] = d[n + 1]
        BY <1>2, <3>2, <3>3
      <3> QED BY <1>1, <1>5, <3>3, <3>4
    <2>2. PICK i \in T : \A k \in T : i <= k
      <3>1. T \in SUBSET Nat
        OBVIOUS
      <3> HIDE DEF T
      <3> QED BY <2>1, <3>1, LeastNumber
    <2>3. i \in 1..n /\ hits[i] # "no" /\ hits[i] \in Outcomes
      BY <2>2
    <2>4. \A j \in 1..(i - 1) : hits[j] = "no"
      <3>1. SUFFICES ASSUME NEW j \in 1..(i - 1), hits[j] # "no" PROVE FALSE
        OBVIOUS
      <3>2. j \in 1..n /\ ~(i <= j)
        BY <2>3
      <3> QED BY <2>2, <3>1, <3>2
    <2>5. d[1] = IF hits[i] = "error" THEN "Error" ELSE verdicts[i]
      BY <1>3, <2>3, <2>4
    <2> QED BY <1>5, <2>3, <2>4, <2>5 DEF Outcomes
  <1> QED BY <1>4, <1>5

-----------------------------------------------------------------------------
(***************************************************************************)
(* The decisions of the policy.                                            *)
(***************************************************************************)
\* A pattern matches, does not, or cannot be evaluated; so does a rule.
LEMMA MatchesType ==
    ASSUME NEW pattern \in Pattern, NEW input
    PROVE  Matches(pattern, input) \in Outcomes
  <1>1. pattern.kind \in {"Literal", "Wildcard", "Broken"}
    BY DEF Pattern
  <1>2. CASE pattern.kind = "Broken"
    BY <1>2 DEF Matches, Outcomes
  <1>3. CASE pattern.kind = "Literal"
    BY <1>3 DEF Matches, Outcomes
  <1>4. CASE pattern.kind = "Wildcard"
    BY <1>4 DEF Matches, Outcomes
  <1> QED BY <1>1, <1>2, <1>3, <1>4

\* A rule about workdirs says "yes" only of a path in one of them.
LEMMA MatchesPathFacts ==
    ASSUME NEW rule \in FilesystemRule, NEW path, NEW workdirs \in Seq(Seq(Text))
    PROVE  /\ MatchesPath(rule, path, workdirs) \in Outcomes
           /\ rule.base = "workdir" /\ MatchesPath(rule, path, workdirs) = "yes" =>
                 \E w \in DOMAIN workdirs : IsPrefix(Normalize(workdirs[w]), path)
  <1> DEFINE n == Len(workdirs)
             Said(w) == LET workdir == Normalize(workdirs[w])
                        IN  IF IsPrefix(workdir, path)
                            THEN Matches(rule.pattern, Relative(path, workdir)) ELSE "no"
             results == [w \in DOMAIN workdirs |-> Said(w)]
  <1>1. rule.pattern \in Pattern /\ rule.base \in {"workdir", "absolute"}
    BY DEF FilesystemRule
  <1>2. n \in Nat /\ DOMAIN workdirs = 1..n
    BY LenProperties
  <1>3. ASSUME NEW w \in 1..n
        PROVE  Said(w) \in Outcomes /\ (Said(w) = "yes" => IsPrefix(Normalize(workdirs[w]), path))
    <2>1. Matches(rule.pattern, Relative(path, Normalize(workdirs[w]))) \in Outcomes
      BY <1>1, MatchesType
    <2> QED BY <2>1 DEF Outcomes
  <1>4. CASE rule.base = "absolute"
    BY <1>1, <1>4, MatchesType DEF MatchesPath
  <1>5. CASE rule.base = "workdir"
    <2>1. MatchesPath(rule, path, workdirs) = FirstHit(results)
      BY <1>5 DEF MatchesPath
    <2>2. \A w \in 1..n : results[w] = Said(w)
      BY <1>2
    <2>3. DOMAIN results = 1..n
      BY <1>2
    <2> HIDE DEF results, Said, n
    <2>4. /\ FirstHit(results) \in Outcomes
          /\ FirstHit(results) # "no" => \E w \in 1..n : results[w] = FirstHit(results)
      BY <1>2, <1>3, <2>2, <2>3, FirstHitFacts
    <2> QED BY <1>2, <1>3, <2>1, <2>2, <2>4
  <1> QED BY <1>1, <1>4, <1>5

\* decide_http_request allows what the first rule for it that says anything
\* allows, and the client asks it of every request that it makes.
LEMMA HttpDecision ==
    ASSUME NEW policy \in RuntimePolicy, NEW request
    PROVE  HttpRequest(policy, request.method, request.url) = "Allow" <=> HttpAllowed(policy, request)
  <1> DEFINE n == Len(policy.http)
             Hit(i) == HttpHit(policy.http[i], request.method, request.url)
             hits == [i \in 1..n |-> Hit(i)]
             verdicts == [i \in 1..n |-> Verdict(policy.http[i].effect = "allow")]
             F(d) == [i \in 1..(Len(policy.http) + 1) |->
                         IF i > Len(policy.http) THEN "Deny"
                         ELSE LET hit == HttpHit(policy.http[i], request.method, request.url)
                              IN  CASE hit = "no" -> d[i + 1]
                                    [] hit = "error" -> "Error"
                                    [] OTHER -> Verdict(policy.http[i].effect = "allow")]
             decide == CHOOSE d : d = F(d)
  <1>1. policy.http \in Seq(HttpRule)
    BY DEF RuntimePolicy
  <1>2. n \in Nat /\ DOMAIN policy.http = 1..n /\ \A i \in 1..n : policy.http[i] \in HttpRule
    BY <1>1, LenProperties, ElementOfSeq
  <1>3. ASSUME NEW i \in 1..n PROVE Hit(i) \in Outcomes /\ (Hit(i) # "no" => request.method \in HttpMethods)
    <2>1. policy.http[i].pattern \in Pattern /\ policy.http[i].method \in HttpMethods
      BY <1>2 DEF HttpRule
    <2>2. Matches(policy.http[i].pattern, request.url) \in Outcomes
      BY <2>1, MatchesType
    <2> QED BY <2>1, <2>2 DEF HttpHit, Outcomes
  <1>4. DecideHttpRequest(policy, request.method, request.url) = decide[1]
    BY DEF DecideHttpRequest
  <1>5. \A d : F(d) = Deciding(n, hits, verdicts, d)
    <2>1. SUFFICES ASSUME NEW d PROVE F(d) = Deciding(n, hits, verdicts, d)
      OBVIOUS
    <2>2. ASSUME NEW i \in 1..(n + 1) PROVE F(d)[i] = Deciding(n, hits, verdicts, d)[i]
      <3>1. CASE i > n
        BY <3>1 DEF Deciding
      <3>2. CASE ~(i > n)
        <4>1. i \in 1..n
          BY <1>2, <3>2
        <4>2. hits[i] = Hit(i) /\ verdicts[i] = Verdict(policy.http[i].effect = "allow")
          BY <4>1
        <4>3. F(d)[i] = IF Hit(i) = "no" THEN d[i + 1]
                        ELSE IF Hit(i) = "error" THEN "Error"
                        ELSE Verdict(policy.http[i].effect = "allow")
          BY <3>2
        <4> HIDE DEF hits, verdicts, Hit
        <4> QED BY <3>2, <4>2, <4>3 DEF Deciding
      <3> QED BY <3>1, <3>2
    <2>3. /\ F(d) = [i \in 1..(n + 1) |-> F(d)[i]]
          /\ Deciding(n, hits, verdicts, d) = [i \in 1..(n + 1) |-> Deciding(n, hits, verdicts, d)[i]]
      BY DEF Deciding
    <2> HIDE DEF F
    <2> QED BY <2>2, <2>3
  <1>6. decide = F(decide)
    <2>1. \E d : d = F(d)
      <3> HIDE DEF F, hits, verdicts, n
      <3>1. \E d : d = Deciding(n, hits, verdicts, d)
        BY <1>2, DecidingExists
      <3> QED BY <1>5, <3>1
    <2> HIDE DEF F
    <2> QED BY <2>1
  <1>7. \A i \in 1..n : /\ hits[i] = Hit(i) /\ hits[i] \in Outcomes
                        /\ verdicts[i] = "Allow" <=> policy.http[i].effect = "allow"
    BY <1>3 DEF Verdict
  <1> HIDE DEF F, decide, hits, verdicts
  <1>8. decide = Deciding(n, hits, verdicts, decide)
    BY <1>5, <1>6
  <1>9. decide[1] = "Allow" <=>
           \E i \in 1..n : /\ Hit(i) = "yes" /\ policy.http[i].effect = "allow"
                           /\ \A j \in 1..(i - 1) : Hit(j) = "no"
    <2>1. decide[1] = "Allow" <=>
             \E i \in 1..n : /\ hits[i] = "yes" /\ verdicts[i] = "Allow"
                             /\ \A j \in 1..(i - 1) : hits[j] = "no"
      <3> HIDE DEF n, Hit
      <3>1. n \in Nat /\ \A i \in 1..n : hits[i] \in Outcomes
        BY <1>2, <1>7
      <3>2. \A d : d = Deciding(n, hits, verdicts, d) =>
                (d[1] = "Allow" <=> \E i \in 1..n : /\ hits[i] = "yes" /\ verdicts[i] = "Allow"
                                                    /\ \A j \in 1..(i - 1) : hits[j] = "no")
        <4> HIDE DEF hits, verdicts
        <4> QED BY <3>1, DecidingFacts
      <3> QED BY <1>8, <3>2
    <2>2. \A i \in 1..n : \A j \in 1..(i - 1) : j \in 1..n
      BY <1>2
    <2> HIDE DEF n, Hit
    <2> QED BY <1>7, <2>1, <2>2
  <1>10. decide[1] = "Allow" <=> HttpAllowed(policy, request)
    <2>1. HttpAllowed(policy, request) <=>
             \E i \in 1..n : /\ policy.http[i].effect = "allow" /\ Hit(i) = "yes"
                             /\ \A j \in 1..(i - 1) : Hit(j) = "no"
      BY <1>2 DEF HttpAllowed
    <2> HIDE DEF Hit, n
    <2> QED BY <1>9, <2>1
  <1>11. HttpAllowed(policy, request) => policy.http # <<>> /\ request.method \in HttpMethods
    <2>1. SUFFICES ASSUME NEW i \in DOMAIN policy.http, Hit(i) = "yes"
                   PROVE  policy.http # <<>> /\ request.method \in HttpMethods
      BY DEF HttpAllowed
    <2> QED BY <1>2, <1>3, <2>1
  <1> HIDE DEF n, Hit
  <1> QED BY <1>4, <1>10, <1>11 DEF HttpRequest, HttpClient

\* What a rule says of a path, which may be meant in each of the workdirs.
RuleHit(policy, path, rule) ==
    FirstHit([p \in DOMAIN RequestedPaths(policy, path) |->
                 MatchesPath(rule, RequestedPaths(policy, path)[p], policy.workdirs)])

\* There are as many requested paths as workdirs, or one.
LEMMA RequestedPathsDomain ==
    ASSUME NEW policy \in RuntimePolicy, NEW path \in Workdir
    PROVE  /\ policy.workdirs \in Seq(Seq(Text)) /\ policy.rules \in Seq(FilesystemRule)
           /\ \E n \in Nat : DOMAIN RequestedPaths(policy, path) = 1..n
  <1>1. policy.workdirs \in Seq(Seq(Text)) /\ policy.rules \in Seq(FilesystemRule)
    BY DEF RuntimePolicy
  <1>2. CASE path.absolute
    <2>1. DOMAIN RequestedPaths(policy, path) = 1..1
      BY <1>2 DEF RequestedPaths
    <2> QED BY <1>1, <2>1
  <1>3. CASE ~path.absolute
    <2>1. DOMAIN RequestedPaths(policy, path) = DOMAIN policy.workdirs
      BY <1>3 DEF RequestedPaths
    <2>2. DOMAIN policy.workdirs = 1..Len(policy.workdirs) /\ Len(policy.workdirs) \in Nat
      BY <1>1, LenProperties
    <2> QED BY <1>1, <2>1, <2>2
  <1> QED BY <1>2, <1>3

\* A rule says "no" if it says so of each of these paths, and "yes" only if it
\* says so of one of them.
LEMMA RuleHitFacts ==
    ASSUME NEW policy \in RuntimePolicy, NEW path \in Workdir, NEW rule \in FilesystemRule
    PROVE  /\ RuleHit(policy, path, rule) \in Outcomes
           /\ RuleHit(policy, path, rule) = "no" =>
                 \A p \in DOMAIN RequestedPaths(policy, path) :
                    MatchesPath(rule, RequestedPaths(policy, path)[p], policy.workdirs) = "no"
           /\ RuleHit(policy, path, rule) = "yes" =>
                 \E p \in DOMAIN RequestedPaths(policy, path) :
                    MatchesPath(rule, RequestedPaths(policy, path)[p], policy.workdirs) = "yes"
  <1> DEFINE paths == RequestedPaths(policy, path)
             Said(p) == MatchesPath(rule, paths[p], policy.workdirs)
             results == [p \in DOMAIN paths |-> Said(p)]
  <1>1. PICK n \in Nat : DOMAIN paths = 1..n
    BY RequestedPathsDomain
  <1>2. \A p \in DOMAIN paths : Said(p) \in Outcomes
    BY RequestedPathsDomain, MatchesPathFacts
  <1>3. RuleHit(policy, path, rule) = FirstHit(results)
    BY DEF RuleHit
  <1>4. DOMAIN results = 1..n /\ \A p \in 1..n : results[p] = Said(p)
    BY <1>1
  <1> HIDE DEF results, Said, paths
  <1>5. /\ FirstHit(results) \in Outcomes
        /\ FirstHit(results) = "no" <=> \A p \in 1..n : results[p] = "no"
        /\ FirstHit(results) # "no" => \E p \in 1..n : results[p] = FirstHit(results)
    <2>1. \A p \in 1..n : results[p] \in Outcomes
      BY <1>1, <1>2, <1>4
    <2> QED BY <1>4, <2>1, FirstHitFacts
  <1>6. /\ FirstHit(results) = "no" => \A p \in DOMAIN paths : Said(p) = "no"
        /\ FirstHit(results) = "yes" => \E p \in DOMAIN paths : Said(p) = "yes"
    BY <1>1, <1>4, <1>5
  <1> QED BY <1>3, <1>5, <1>6 DEF Said, paths

\* decide_path_access allows what the first rule that says anything allows.
LEMMA PathDecision ==
    ASSUME NEW policy \in RuntimePolicy, NEW path \in Workdir, NEW access
    PROVE  DecidePathAccess(policy, path, access) = "Allow" <=>
              \E i \in DOMAIN policy.rules :
                 /\ Allows(policy.rules[i].permissions, access)
                 /\ RuleHit(policy, path, policy.rules[i]) = "yes"
                 /\ \A j \in 1..(i - 1) : RuleHit(policy, path, policy.rules[j]) = "no"
  <1> DEFINE n == Len(policy.rules)
             Hit(i) == RuleHit(policy, path, policy.rules[i])
             Allowed(i) == Allows(policy.rules[i].permissions, access)
             hits == [i \in 1..n |-> Hit(i)]
             verdicts == [i \in 1..n |-> Verdict(Allowed(i))]
             F(d) == [i \in 1..(Len(policy.rules) + 1) |->
                         IF i > Len(policy.rules) THEN "Deny"
                         ELSE CASE Hit(i) = "no" -> d[i + 1]
                                [] Hit(i) = "error" -> "Error"
                                [] OTHER -> Verdict(Allowed(i))]
             decide == CHOOSE d : d = F(d)
  <1>1. policy.rules \in Seq(FilesystemRule)
    BY RequestedPathsDomain
  <1>2. n \in Nat /\ DOMAIN policy.rules = 1..n /\ \A i \in 1..n : policy.rules[i] \in FilesystemRule
    BY <1>1, LenProperties, ElementOfSeq
  <1>3. \A i \in 1..n : Hit(i) \in Outcomes
    BY <1>2, RuleHitFacts
  <1>4. DecidePathAccess(policy, path, access) = decide[1]
    BY DEF DecidePathAccess, RuleHit
  <1>5. \A d : F(d) = Deciding(n, hits, verdicts, d)
    <2>1. SUFFICES ASSUME NEW d PROVE F(d) = Deciding(n, hits, verdicts, d)
      OBVIOUS
    <2>2. ASSUME NEW i \in 1..(n + 1) PROVE F(d)[i] = Deciding(n, hits, verdicts, d)[i]
      <3> HIDE DEF Hit, Allowed
      <3>1. CASE i > n
        BY <3>1 DEF Deciding
      <3>2. CASE ~(i > n)
        <4>1. i \in 1..n
          BY <1>2, <3>2
        <4>2. hits[i] = Hit(i) /\ verdicts[i] = Verdict(Allowed(i))
          BY <4>1
        <4>3. F(d)[i] = IF Hit(i) = "no" THEN d[i + 1]
                        ELSE IF Hit(i) = "error" THEN "Error"
                        ELSE Verdict(Allowed(i))
          BY <3>2
        <4> HIDE DEF hits, verdicts
        <4> QED BY <3>2, <4>2, <4>3 DEF Deciding
      <3> QED BY <3>1, <3>2
    <2>3. /\ F(d) = [i \in 1..(n + 1) |-> F(d)[i]]
          /\ Deciding(n, hits, verdicts, d) = [i \in 1..(n + 1) |-> Deciding(n, hits, verdicts, d)[i]]
      BY DEF Deciding
    <2> HIDE DEF F
    <2> QED BY <2>2, <2>3
  <1>6. decide = F(decide)
    <2>1. \E d : d = F(d)
      <3> HIDE DEF F, hits, verdicts, n
      <3>1. \E d : d = Deciding(n, hits, verdicts, d)
        BY <1>2, DecidingExists
      <3> QED BY <1>5, <3>1
    <2> HIDE DEF F
    <2> QED BY <2>1
  <1>7. \A i \in 1..n : /\ hits[i] = Hit(i) /\ hits[i] \in Outcomes
                        /\ verdicts[i] = "Allow" <=> Allowed(i)
    <2> HIDE DEF Hit, Allowed
    <2> QED BY <1>3 DEF Verdict
  <1> HIDE DEF F, decide, hits, verdicts, Hit, Allowed
  <1>8. decide = Deciding(n, hits, verdicts, decide)
    BY <1>5, <1>6
  <1> HIDE DEF n
  <1>9. decide[1] = "Allow" <=>
           \E i \in 1..n : /\ hits[i] = "yes" /\ verdicts[i] = "Allow"
                           /\ \A j \in 1..(i - 1) : hits[j] = "no"
    <2>1. n \in Nat /\ \A i \in 1..n : hits[i] \in Outcomes
      BY <1>2, <1>7
    <2>2. \A d : d = Deciding(n, hits, verdicts, d) =>
              (d[1] = "Allow" <=> \E i \in 1..n : /\ hits[i] = "yes" /\ verdicts[i] = "Allow"
                                                  /\ \A j \in 1..(i - 1) : hits[j] = "no")
      BY <2>1, DecidingFacts
    <2> QED BY <1>8, <2>2
  <1>10. \A i \in 1..n : \A j \in 1..(i - 1) : j \in 1..n
    BY <1>2
  <1>11. decide[1] = "Allow" <=>
            \E i \in 1..n : /\ Allowed(i) /\ Hit(i) = "yes"
                            /\ \A j \in 1..(i - 1) : Hit(j) = "no"
    BY <1>7, <1>9, <1>10
  <1> QED BY <1>2, <1>4, <1>11 DEF Hit, Allowed

\* So what it allows is allowed by a rule that says "yes" of a requested path,
\* and of which the earlier ones say "no".
LEMMA AllowedPaths ==
    ASSUME NEW policy \in RuntimePolicy, NEW request, request.path \in Workdir,
           DecidePathAccess(policy, request.path, request.access) = "Allow"
    PROVE  PathAllowed(policy, request)
  <1> DEFINE paths == RequestedPaths(policy, request.path)
             Hits(i) == {MatchesPath(policy.rules[i], paths[p], policy.workdirs) : p \in DOMAIN paths}
  <1>1. PICK i \in DOMAIN policy.rules :
           /\ Allows(policy.rules[i].permissions, request.access)
           /\ RuleHit(policy, request.path, policy.rules[i]) = "yes"
           /\ \A j \in 1..(i - 1) : RuleHit(policy, request.path, policy.rules[j]) = "no"
    BY PathDecision
  <1>2. \A k \in DOMAIN policy.rules : policy.rules[k] \in FilesystemRule
    BY RequestedPathsDomain, ElementOfSeq, LenProperties
  <1>3. "yes" \in Hits(i)
    BY <1>1, <1>2, RuleHitFacts
  <1>4. ASSUME NEW j \in 1..(i - 1) PROVE Hits(j) \subseteq {"no"}
    <2>1. j \in DOMAIN policy.rules
      <3>1. DOMAIN policy.rules = 1..Len(policy.rules) /\ Len(policy.rules) \in Nat
        BY RequestedPathsDomain, LenProperties
      <3> QED BY <1>1, <3>1
    <2>2. RuleHit(policy, request.path, policy.rules[j]) = "no"
      BY <1>1
    <2> QED BY <1>2, <2>1, <2>2, RuleHitFacts
  <1> QED BY <1>1, <1>3, <1>4 DEF PathAllowed

-----------------------------------------------------------------------------
(***************************************************************************)
(* Where a path leads.                                                     *)
(***************************************************************************)
\* normalize_path ends where a walk along the components ends: the root is its
\* own parent.
LEMMA NormalizeIsLocation ==
    ASSUME NEW parts
    PROVE  Normalize(parts) = Location(parts)
  <1> DEFINE Popped(g) == [n \in 0..Len(parts) |->
                 IF n = 0 \/ (parts[n] = ".." /\ g[n - 1] = <<>>) THEN <<>>
                 ELSE CASE parts[n] = "." -> g[n - 1]
                        [] parts[n] = ".." -> Front(g[n - 1])
                        [] OTHER -> Append(g[n - 1], parts[n])]
             Walked(g) == [n \in 0..Len(parts) |->
                 IF n = 0 THEN <<>>
                 ELSE IF parts[n] = ".." THEN SubSeq(g[n - 1], 1, Len(g[n - 1]) - 1)
                 ELSE IF parts[n] = "." THEN g[n - 1]
                 ELSE Append(g[n - 1], parts[n])]
             popped == CHOOSE g : g = Popped(g)
             walked == CHOOSE g : g = Walked(g)
  <1>1. Normalize(parts) = popped[Len(parts)] /\ Location(parts) = walked[Len(parts)]
    BY DEF Normalize, Location
  <1>2. SubSeq(<<>>, 1, Len(<<>>) - 1) = <<>>
    OBVIOUS
  <1>3. ASSUME NEW g PROVE Popped(g) = Walked(g)
    <2>1. ASSUME NEW n \in 0..Len(parts) PROVE Popped(g)[n] = Walked(g)[n]
      <3>1. CASE n = 0
        BY <3>1
      <3>2. CASE n # 0 /\ parts[n] = ".." /\ g[n - 1] = <<>>
        BY <1>2, <3>2
      <3>3. CASE n # 0 /\ parts[n] = ".." /\ g[n - 1] # <<>>
        <4>1. Popped(g)[n] = Front(g[n - 1])
          BY <3>3
        <4>2. Walked(g)[n] = SubSeq(g[n - 1], 1, Len(g[n - 1]) - 1)
          BY <3>3
        <4> HIDE DEF Popped, Walked
        <4> QED BY <4>1, <4>2 DEF Front
      <3>4. CASE n # 0 /\ parts[n] = "."
        BY <3>4
      <3>5. CASE n # 0 /\ parts[n] # "." /\ parts[n] # ".."
        BY <3>5
      <3> QED BY <3>1, <3>2, <3>3, <3>4, <3>5
    <2>2. /\ Popped(g) = [n \in 0..Len(parts) |-> Popped(g)[n]]
          /\ Walked(g) = [n \in 0..Len(parts) |-> Walked(g)[n]]
      OBVIOUS
    <2> HIDE DEF Popped, Walked
    <2> QED BY <2>1, <2>2
  <1>4. popped = walked
    <2> HIDE DEF Popped, Walked
    <2>1. \A g : (g = Popped(g)) <=> (g = Walked(g))
      BY <1>3
    <2> QED BY <2>1
  <1> HIDE DEF popped, walked
  <1> QED BY <1>1, <1>4

\* If all rules are about workdirs, a path is only allowed if it, meant in one
\* of the workdirs, leads into one of them.
LEMMA AllowedInside ==
    ASSUME NEW policy \in RuntimePolicy, NEW path \in Workdir, NEW access,
           DecidePathAccess(policy, path, access) = "Allow",
           \A r \in DOMAIN policy.rules : policy.rules[r].base = "workdir"
    PROVE  LET workdirs == Range(policy.workdirs)
               targets == IF path.absolute THEN {path.parts} ELSE {w \o path.parts : w \in workdirs}
           IN  \E target \in targets, w \in workdirs : IsPrefix(Location(w), Location(target))
  <1> DEFINE paths == RequestedPaths(policy, path)
             workdirs == Range(policy.workdirs)
             targets == IF path.absolute THEN {path.parts} ELSE {w \o path.parts : w \in workdirs}
  <1>1. PICK i \in DOMAIN policy.rules : RuleHit(policy, path, policy.rules[i]) = "yes"
    BY PathDecision
  <1>2. policy.rules[i] \in FilesystemRule /\ policy.rules[i].base = "workdir"
    BY RequestedPathsDomain, ElementOfSeq, LenProperties
  <1>3. PICK p \in DOMAIN paths : MatchesPath(policy.rules[i], paths[p], policy.workdirs) = "yes"
    BY <1>1, <1>2, RuleHitFacts
  <1>4. PICK w \in DOMAIN policy.workdirs : IsPrefix(Normalize(policy.workdirs[w]), paths[p])
    BY <1>2, <1>3, RequestedPathsDomain, MatchesPathFacts
  <1>5. \E target \in targets : paths[p] = Normalize(target)
    <2>1. CASE path.absolute
      <3>1. paths = <<Normalize(path.parts)>> /\ path.parts \in targets
        BY <2>1 DEF RequestedPaths
      <3>2. paths[p] = Normalize(path.parts)
        BY <1>3, <3>1
      <3> QED BY <3>1, <3>2
    <2>2. CASE ~path.absolute
      <3>1. paths = [v \in DOMAIN policy.workdirs |-> Normalize(policy.workdirs[v] \o path.parts)]
        BY <2>2 DEF RequestedPaths
      <3>2. p \in DOMAIN policy.workdirs /\ paths[p] = Normalize(policy.workdirs[p] \o path.parts)
        BY <1>3, <3>1
      <3>3. policy.workdirs[p] \o path.parts \in targets
        BY <2>2, <3>2 DEF Range
      <3> QED BY <3>2, <3>3
    <2> QED BY <2>1, <2>2
  <1>6. PICK target \in targets : paths[p] = Normalize(target)
    BY <1>5
  <1>7. policy.workdirs[w] \in workdirs
    BY DEF Range
  <1>8. IsPrefix(Location(policy.workdirs[w]), Location(target))
    BY <1>4, <1>6, NormalizeIsLocation
  <1> HIDE DEF workdirs, targets
  <1>9. \E t \in targets, v \in workdirs : IsPrefix(Location(v), Location(t))
    BY <1>6, <1>7, <1>8
  <1> QED BY <1>9 DEF workdirs, targets

-----------------------------------------------------------------------------
(***************************************************************************)
(* The policy that a configuration is made into.                           *)
(***************************************************************************)
\* An overlay that says nothing changes nothing.
LEMMA OverlaidNothing ==
    ASSUME NEW base, base = [k \in DOMAIN base |-> base[k]]
    PROVE  Overlaid(<<>>, base) = base
  <1>1. DOMAIN <<>> = {}
    OBVIOUS
  <1>2. DOMAIN <<>> \union DOMAIN base = DOMAIN base
    BY <1>1
  <1>3. \A k \in DOMAIN base : Overlaid(<<>>, base)[k] = base[k]
    BY <1>1, <1>2 DEF Overlaid
  <1>4. Overlaid(<<>>, base) = [k \in DOMAIN base |-> Overlaid(<<>>, base)[k]]
    BY <1>2 DEF Overlaid
  <1> QED BY <1>3, <1>4

\* Nor does one that says the same.
LEMMA OverlaidTwice ==
    ASSUME NEW base, base = [k \in DOMAIN base |-> base[k]]
    PROVE  Overlaid(base, base) = base
  <1>1. DOMAIN base \union DOMAIN base = DOMAIN base
    OBVIOUS
  <1>2. \A k \in DOMAIN base : Overlaid(base, base)[k] = base[k]
    BY <1>1 DEF Overlaid
  <1>3. Overlaid(base, base) = [k \in DOMAIN base |-> Overlaid(base, base)[k]]
    BY <1>1 DEF Overlaid
  <1> QED BY <1>2, <1>3

\* The default rule reads in the workdirs.
LEMMA DefaultRuleType ==
    DefaultRule \in RuleConfig /\ Overlaid(DefaultRule, DefaultRule) = DefaultRule
  <1>1. Anything \in Pattern
    <2> DEFINE value == <<"**">>
    <2>1. "**" \in Text
      BY DEF Text
    <2>2. value \in Seq(Text)
      BY <2>1
    <2>3. Anything = [kind |-> "Wildcard", value |-> value]
      BY DEF Anything
    <2> HIDE DEF value
    <2> QED BY <2>2, <2>3 DEF Pattern
  <1>2. DefaultRule \in RuleConfig
    BY <1>1 DEF DefaultRule, RuleConfig
  <1>3. DefaultRule = [k \in DOMAIN DefaultRule |-> DefaultRule[k]]
    BY DEF DefaultRule
  <1> QED BY <1>2, <1>3, OverlaidTwice

\* Of a rule that is one once its gaps are filled, into_rule makes one.
LEMMA IntoRuleType ==
    ASSUME NEW fields, Overlaid(fields, DefaultRule) \in RuleConfig
    PROVE  IntoRule(fields) \in FilesystemRule
  <1> DEFINE rule == Overlaid(fields, DefaultRule)
  <1>1. rule.base \in {"workdir", "absolute"} /\ rule.pattern \in Pattern
    BY DEF RuleConfig
  <1>2. Permissions(rule) \in [read : BOOLEAN, write : BOOLEAN]
    BY DEF Permissions
  <1>3. IntoRule(fields) = [base |-> rule.base, pattern |-> rule.pattern, permissions |-> Permissions(rule)]
    BY DEF IntoRule
  <1> HIDE DEF rule
  <1> QED BY <1>1, <1>2, <1>3 DEF FilesystemRule

\* The policy without a configuration.
LEMMA WorkspaceDefaultType == WorkspaceDefault \in RuntimePolicy
  <1> DEFINE rule == IntoRule(DefaultRule)
  <1>1. rule \in FilesystemRule
    BY DefaultRuleType, IntoRuleType
  <1>2. Root \in Seq(Text)
    BY StartupAssumption
  <1>3. WorkspaceDefault = [workdirs |-> <<Root>>, rules |-> <<rule>>, http |-> <<>>, native |-> <<>>]
    BY DEF WorkspaceDefault
  <1> HIDE DEF rule
  <1>4. <<Root>> \in Seq(Seq(Text)) /\ <<rule>> \in Seq(FilesystemRule)
    BY <1>1, <1>2
  <1>5. <<>> \in Seq(HttpRule) /\ <<>> \in Seq(Text)
    OBVIOUS
  <1> QED BY <1>3, <1>4, <1>5 DEF RuntimePolicy

\* The configuration without a file.
LEMMA DefaultConfigType == ConfigOK(Merge(<<>>))
  <1> DEFINE workdirs == <<[absolute |-> FALSE, parts |-> <<".">>]>>
             rules == <<DefaultRule>>
  <1>1. DefaultConfig = [k \in DOMAIN DefaultConfig |-> DefaultConfig[k]]
    BY DEF DefaultConfig
  <1>2. Merge(<<>>) = DefaultConfig
    BY <1>1, OverlaidNothing DEF Merge
  <1>3. /\ DefaultConfig.workdirs = workdirs /\ DefaultConfig.rules = rules
        /\ DefaultConfig.http = <<>> /\ DefaultConfig.native = <<>>
    BY DEF DefaultConfig
  <1>4. workdirs \in Seq(Workdir)
    <2> DEFINE parts == <<".">>
               workdir == [absolute |-> FALSE, parts |-> parts]
    <2>1. "." \in Text
      BY DEF Text
    <2>2. parts \in Seq(Text)
      BY <2>1
    <2> HIDE DEF parts
    <2>3. workdir \in Workdir
      BY <2>2 DEF Workdir
    <2>4. workdirs = <<workdir>>
      BY DEF parts
    <2> HIDE DEF workdir, workdirs
    <2> QED BY <2>3, <2>4
  <1>5. rules \in Seq(Range(rules)) /\ \A r \in DOMAIN rules : Overlaid(rules[r], DefaultRule) \in RuleConfig
    <2>1. DOMAIN rules = {1} /\ rules[1] = DefaultRule
      OBVIOUS
    <2>2. DefaultRule \in Range(rules)
      BY <2>1 DEF Range
    <2> QED BY <2>1, <2>2, DefaultRuleType
  <1>6. <<>> \in Seq(Range(<<>>)) /\ DOMAIN <<>> = {} /\ <<>> \in Seq(Text)
    OBVIOUS
  <1> HIDE DEF workdirs, rules
  <1> QED BY <1>2, <1>3, <1>4, <1>5, <1>6 DEF ConfigOK

\* into_runtime_policy: of a configuration of the right types it makes a policy.
LEMMA PolicyType ==
    ASSUME NEW config, ConfigOK(config)
    PROVE  IntoRuntimePolicy(config) \in RuntimePolicy
  <1> DEFINE workdirs == [w \in DOMAIN config.workdirs |-> ResolveWorkdir(config.workdirs[w])]
             rules == [r \in DOMAIN config.rules |-> IntoRule(config.rules[r])]
             http == [r \in DOMAIN config.http |-> Overlaid(config.http[r], DefaultHttpRule)]
  <1>1. workdirs \in Seq(Seq(Text))
    <2> DEFINE n == Len(config.workdirs)
    <2>1. config.workdirs \in Seq(Workdir)
      BY DEF ConfigOK
    <2>2. n \in Nat /\ DOMAIN config.workdirs = 1..n /\ \A w \in 1..n : config.workdirs[w] \in Workdir
      BY <2>1, LenProperties, ElementOfSeq
    <2>3. ASSUME NEW w \in 1..n PROVE ResolveWorkdir(config.workdirs[w]) \in Seq(Text)
      <3>1. config.workdirs[w].parts \in Seq(Text)
        BY <2>2 DEF Workdir
      <3> QED BY <3>1, StartupAssumption, ConcatProperties DEF ResolveWorkdir
    <2> HIDE DEF n
    <2>4. workdirs \in [1..n -> Seq(Text)]
      BY <2>2, <2>3
    <2> HIDE DEF workdirs
    <2> QED BY <2>2, <2>4, SeqDef
  <1>2. rules \in Seq(FilesystemRule)
    <2> DEFINE n == Len(config.rules)
    <2>1. n \in Nat /\ DOMAIN config.rules = 1..n
      BY LenProperties DEF ConfigOK
    <2>2. \A r \in 1..n : IntoRule(config.rules[r]) \in FilesystemRule
      BY <2>1, IntoRuleType DEF ConfigOK
    <2> HIDE DEF n
    <2>3. rules \in [1..n -> FilesystemRule]
      BY <2>1, <2>2
    <2> HIDE DEF rules
    <2> QED BY <2>1, <2>3, SeqDef
  <1>3. http \in Seq(HttpRule)
    <2> DEFINE n == Len(config.http)
    <2>1. n \in Nat /\ DOMAIN config.http = 1..n
      BY LenProperties DEF ConfigOK
    <2>2. \A r \in 1..n : Overlaid(config.http[r], DefaultHttpRule) \in HttpRule
      BY <2>1 DEF ConfigOK
    <2> HIDE DEF n
    <2>3. http \in [1..n -> HttpRule]
      BY <2>1, <2>2
    <2> HIDE DEF http
    <2> QED BY <2>1, <2>3, SeqDef
  <1>4. config.native \in Seq(Text)
    BY DEF ConfigOK
  <1>5. IntoRuntimePolicy(config) =
           [workdirs |-> workdirs, rules |-> rules, http |-> http, native |-> config.native]
    BY DEF IntoRuntimePolicy
  <1> HIDE DEF workdirs, rules, http
  <1> QED BY <1>1, <1>2, <1>3, <1>4, <1>5 DEF RuntimePolicy

\* What the terminal UI says of a policy.
LEMMA SummaryType ==
    ASSUME NEW policy \in RuntimePolicy
    PROVE  Summary(policy) \in SandboxSummary
  <1> DEFINE writes == \E r \in DOMAIN policy.rules : policy.rules[r].permissions.write
  <1>1. policy.http \in Seq(HttpRule) /\ policy.native \in Seq(Text)
    BY DEF RuntimePolicy
  <1>2. Len(policy.http) \in Nat
    BY <1>1, LenProperties
  <1>3. writes \in BOOLEAN
    OBVIOUS
  <1>4. Summary(policy) = [writes |-> writes, http |-> Len(policy.http), native |-> policy.native]
    BY DEF Summary
  <1> HIDE DEF writes
  <1> QED BY <1>1, <1>2, <1>3, <1>4 DEF SandboxSummary

-----------------------------------------------------------------------------
(***************************************************************************)
(* The skills that are selected from a catalog.                            *)
(***************************************************************************)
\* What one more name adds to those chosen before.
WithName(catalog, names, before, n) ==
    IF \E i \in DOMAIN before : before[i].name = names[n] THEN before
    ELSE Append(before, [name |-> names[n], skill |-> catalog[names[n]]])

\* What is chosen by the first n names, for each n up to N.
Choosing(catalog, names, f, N) ==
    f = [n \in 0..N |-> IF n = 0 THEN <<>> ELSE WithName(catalog, names, f[n - 1], n)]

\* There is such a function, of every length.
LEMMA ChoosingExists ==
    ASSUME NEW catalog, NEW names, NEW N \in Nat
    PROVE  \E f : Choosing(catalog, names, f, N)
  <1> DEFINE T == {n \in 0..N : ~\E f : Choosing(catalog, names, f, n)}
  <1>1. SUFFICES ASSUME T # {} PROVE FALSE
    <2>1. T = {}
      OBVIOUS
    <2>2. N \in 0..N
      OBVIOUS
    <2> QED BY <2>1, <2>2
  <1>2. PICK n \in T : \A m \in T : n <= m
    <2>1. T \in SUBSET Nat
      OBVIOUS
    <2> HIDE DEF T
    <2> QED BY <1>1, <2>1, LeastNumber
  <1>3. n # 0
    <2>1. ASSUME n = 0 PROVE FALSE
      <3> DEFINE g == [k \in 0..0 |-> <<>>]
      <3>1. g = [k \in 0..0 |-> IF k = 0 THEN <<>> ELSE WithName(catalog, names, g[k - 1], k)]
        OBVIOUS
      <3> HIDE DEF g
      <3>2. Choosing(catalog, names, g, 0)
        BY <3>1 DEF Choosing
      <3> QED BY <1>2, <2>1, <3>2
    <2> QED BY <2>1
  <1>4. n \in Nat /\ n \in 1..N /\ n - 1 \in 0..N /\ ~(n <= n - 1)
    BY <1>2, <1>3
  <1>5. PICK g : Choosing(catalog, names, g, n - 1)
    BY <1>2, <1>4
  <1> DEFINE h == [k \in 0..n |-> IF k = 0 THEN <<>> ELSE WithName(catalog, names, g[k - 1], k)]
  <1>6. \A k \in 0..(n - 1) : g[k] = h[k]
    <2>1. SUFFICES ASSUME NEW k \in 0..(n - 1) PROVE g[k] = h[k]
      OBVIOUS
    <2>2. k \in 0..n
      BY <1>4
    <2>3. g[k] = IF k = 0 THEN <<>> ELSE WithName(catalog, names, g[k - 1], k)
      BY <1>5 DEF Choosing
    <2> QED BY <2>2, <2>3
  <1>7. Choosing(catalog, names, h, n)
    <2>1. \A k \in 0..n : k # 0 => k - 1 \in 0..(n - 1)
      BY <1>4
    <2>2. h = [k \in 0..n |-> IF k = 0 THEN <<>> ELSE WithName(catalog, names, h[k - 1], k)]
      BY <1>6, <2>1
    <2> HIDE DEF h
    <2> QED BY <2>2 DEF Choosing
  <1>8. n \in 0..N /\ ~\E f : Choosing(catalog, names, f, n)
    BY <1>2
  <1> QED BY <1>7, <1>8

\* After n names, it has the entries of the catalog for those names, each once
\* and no more of them than names.
Chosen(catalog, names, chosen, n) ==
    /\ chosen \in Seq({[name |-> x, skill |-> catalog[x]] : x \in Range(names)})
    /\ Len(chosen) <= n
    /\ \A i, j \in DOMAIN chosen : chosen[i].name = chosen[j].name => i = j
    /\ \A i \in DOMAIN chosen : \E k \in 1..n : chosen[i].name = names[k]
    /\ \A k \in 1..n : \E i \in DOMAIN chosen : chosen[i].name = names[k]

\* One more name keeps this so.
LEMMA OneMoreName ==
    ASSUME NEW catalog, NEW names, NEW before, NEW n \in Nat, n # 0, n \in DOMAIN names,
           Chosen(catalog, names, before, n - 1)
    PROVE  Chosen(catalog, names, WithName(catalog, names, before, n), n)
  <1> DEFINE Entries == {[name |-> x, skill |-> catalog[x]] : x \in Range(names)}
             entry == [name |-> names[n], skill |-> catalog[names[n]]]
             after == WithName(catalog, names, before, n)
  <1>1. /\ before \in Seq(Entries) /\ Len(before) <= n - 1
        /\ \A i, j \in DOMAIN before : before[i].name = before[j].name => i = j
        /\ \A i \in DOMAIN before : \E k \in 1..(n - 1) : before[i].name = names[k]
        /\ \A k \in 1..(n - 1) : \E i \in DOMAIN before : before[i].name = names[k]
    BY DEF Chosen
  <1>2. entry \in Entries /\ entry.name = names[n]
    BY DEF Range
  <1>3. Len(before) \in Nat /\ DOMAIN before = 1..Len(before)
    BY <1>1, LenProperties
  <1>4. \A k \in 1..n : k \in 1..(n - 1) \/ k = n
    OBVIOUS
  <1>5. n \in 1..n /\ \A k \in 1..(n - 1) : k \in 1..n
    OBVIOUS
  <1>6. CASE \E i \in DOMAIN before : before[i].name = names[n]
    <2>1. after = before
      BY <1>6 DEF WithName
    <2> HIDE DEF after, Entries, entry
    <2>2. Len(after) <= n
      BY <1>1, <1>3, <2>1
    <2>3. /\ \A i \in DOMAIN after : \E k \in 1..n : after[i].name = names[k]
          /\ \A k \in 1..n : \E i \in DOMAIN after : after[i].name = names[k]
      BY <1>1, <1>4, <1>5, <1>6, <2>1
    <2> QED BY <1>1, <2>1, <2>2, <2>3 DEF Chosen, after, Entries
  <1>7. CASE ~\E i \in DOMAIN before : before[i].name = names[n]
    <2>1. after = Append(before, entry)
      BY <1>7 DEF WithName
    <2> HIDE DEF after, Entries, entry
    <2>2. /\ after \in Seq(Entries) /\ Len(after) = Len(before) + 1
          /\ \A i \in 1..Len(before) : after[i] = before[i]
          /\ after[Len(before) + 1] = entry
      BY <1>1, <1>2, <2>1, AppendProperties
    <2>3. DOMAIN after = 1..(Len(before) + 1)
      BY <2>2, LenProperties
    <2>4. Len(after) <= n
      BY <1>1, <1>3, <2>2
    <2>5. \A i \in 1..(Len(before) + 1) : i \in 1..Len(before) \/ i = Len(before) + 1
      BY <1>3
    <2>6. ASSUME NEW i \in DOMAIN after PROVE \E k \in 1..n : after[i].name = names[k]
      <3>1. CASE i \in 1..Len(before)
        <4>1. after[i] = before[i] /\ i \in DOMAIN before
          BY <1>3, <2>2, <3>1
        <4>2. PICK k \in 1..(n - 1) : before[i].name = names[k]
          BY <1>1, <4>1
        <4> QED BY <1>5, <4>1, <4>2
      <3>2. CASE i = Len(before) + 1
        <4>1. after[i].name = names[n]
          BY <1>2, <2>2, <3>2
        <4> QED BY <1>5, <4>1
      <3> QED BY <2>3, <2>5, <3>1, <3>2
    <2>7. /\ Len(before) + 1 \in DOMAIN after
          /\ \A i \in DOMAIN before : i \in DOMAIN after /\ after[i] = before[i]
      BY <1>3, <2>2, <2>3
    <2>8. ASSUME NEW k \in 1..n PROVE \E i \in DOMAIN after : after[i].name = names[k]
      <3>1. CASE k = n
        BY <1>2, <2>2, <2>7, <3>1
      <3>2. CASE k \in 1..(n - 1)
        <4>1. PICK i \in DOMAIN before : before[i].name = names[k]
          BY <1>1, <3>2
        <4> QED BY <2>7, <4>1
      <3> QED BY <1>4, <3>1, <3>2
    <2>9. ASSUME NEW i \in DOMAIN after, NEW j \in DOMAIN after, after[i].name = after[j].name
          PROVE  i = j
      <3>1. /\ i \in 1..Len(before) \/ i = Len(before) + 1
            /\ j \in 1..Len(before) \/ j = Len(before) + 1
        BY <2>3, <2>5
      <3>2. CASE i \in 1..Len(before) /\ j \in 1..Len(before)
        <4>1. after[i] = before[i] /\ after[j] = before[j] /\ i \in DOMAIN before /\ j \in DOMAIN before
          BY <1>3, <2>2, <3>2
        <4> QED BY <1>1, <2>9, <4>1
      <3>3. after[Len(before) + 1].name = names[n]
        BY <1>2, <2>2
      <3>4. \A l \in 1..Len(before) : after[l].name # names[n]
        BY <1>3, <1>7, <2>2
      <3> QED BY <2>9, <3>1, <3>2, <3>3, <3>4
    <2> QED BY <2>2, <2>4, <2>6, <2>8, <2>9 DEF Chosen, after, Entries
  <1> QED BY <1>6, <1>7

\* select_explicit_skills chooses each of the names, once, from the catalog.
LEMMA SelectedFacts ==
    ASSUME NEW catalog, NEW names, NEW S, names \in Seq(S)
    PROVE  Chosen(catalog, names, Selected(catalog, names), Len(names))
  <1> DEFINE N == Len(names)
             F(f) == [n \in 0..Len(names) |->
                 IF n = 0 THEN <<>>
                 ELSE IF \E i \in DOMAIN f[n - 1] : f[n - 1][i].name = names[n] THEN f[n - 1]
                 ELSE Append(f[n - 1], [name |-> names[n], skill |-> catalog[names[n]]])]
             f == CHOOSE g : g = F(g)
  <1>1. N \in Nat /\ DOMAIN names = 1..N
    BY LenProperties
  <1>2. Selected(catalog, names) = f[N]
    BY DEF Selected
  <1>3. \A g : g = F(g) <=> Choosing(catalog, names, g, N)
    BY DEF Choosing, WithName
  <1>4. f = F(f)
    <2>1. \E g : g = F(g)
      BY <1>1, <1>3, ChoosingExists
    <2> HIDE DEF F
    <2> QED BY <2>1
  <1>5. Choosing(catalog, names, f, N)
    <2> HIDE DEF f, F
    <2> QED BY <1>3, <1>4
  <1> HIDE DEF f, F, N
  <1>6. \A n \in 0..N : f[n] = IF n = 0 THEN <<>> ELSE WithName(catalog, names, f[n - 1], n)
    BY <1>5 DEF Choosing
  <1> DEFINE T == {n \in 0..N : ~Chosen(catalog, names, f[n], n)}
  <1>7. T = {}
    <2>1. SUFFICES ASSUME T # {} PROVE FALSE
      OBVIOUS
    <2>2. PICK n \in T : \A m \in T : n <= m
      <3>1. T \in SUBSET Nat
        OBVIOUS
      <3> HIDE DEF T
      <3> QED BY <2>1, <3>1, LeastNumber
    <2>3. n \in 0..N /\ n \in Nat /\ ~Chosen(catalog, names, f[n], n)
      BY <1>1, <2>2
    <2>4. CASE n = 0
      <3>1. f[n] = <<>>
        BY <1>6, <2>3, <2>4
      <3>2. Chosen(catalog, names, <<>>, 0)
        BY DEF Chosen
      <3> QED BY <2>3, <2>4, <3>1, <3>2
    <2>5. CASE n # 0
      <3>1. n - 1 \in 0..N /\ ~(n <= n - 1) /\ n \in DOMAIN names
        BY <1>1, <2>3, <2>5
      <3>2. Chosen(catalog, names, f[n - 1], n - 1)
        BY <2>2, <3>1
      <3>3. f[n] = WithName(catalog, names, f[n - 1], n)
        BY <1>6, <2>3, <2>5
      <3> HIDE DEF T
      <3>4. Chosen(catalog, names, f[n], n)
        BY <2>3, <2>5, <3>1, <3>2, <3>3, OneMoreName
      <3> QED BY <2>3, <3>4
    <2> QED BY <2>4, <2>5
  <1>8. N \in 0..N
    BY <1>1
  <1> QED BY <1>2, <1>7, <1>8 DEF N

-----------------------------------------------------------------------------
(***************************************************************************)
(* Types.                                                                  *)
(***************************************************************************)
\* The empty catalog is one.
LEMMA NoCatalogType == NoCatalog \in Catalogs
  <1>1. <<>> \in [{} -> Skill]
    <2>1. <<>> \in Seq(Skill) /\ Len(<<>>) = 0
      OBVIOUS
    <2>2. <<>> \in [1..0 -> Skill]
      BY <2>1, LenProperties
    <2>3. 1..0 = {}
      OBVIOUS
    <2> QED BY <2>2, <2>3
  <1>2. {} \in SUBSET SkillNames
    OBVIOUS
  <1> QED BY <1>1, <1>2 DEF NoCatalog, Catalogs

\* So is what insert_skill makes of one; what is new in it is on disk.
LEMMA InsertedFacts ==
    ASSUME files \in Files, NEW catalog \in Catalogs, NEW scope \in Scopes
    PROVE  /\ Inserted(catalog, scope) \in Catalogs
           /\ \A name \in DOMAIN Inserted(catalog, scope) :
                \/ name \in DOMAIN catalog /\ Inserted(catalog, scope)[name] = catalog[name]
                \/ <<Inserted(catalog, scope)[name].scope, name, Inserted(catalog, scope)[name].content>>
                      \in OnDisk(files)
  <1> DEFINE found == Discovered(scope)
             names == {name \in SkillNames : files.skills[scope][name] \in Usable}
             all == DOMAIN found \union DOMAIN catalog
             both == Inserted(catalog, scope)
  <1>1. PICK old \in SUBSET SkillNames : catalog \in [old -> Skill]
    BY DEF Catalogs
  <1>2. DOMAIN found = names /\ \A name \in names :
            found[name] = [scope |-> scope, content |-> files.skills[scope][name]]
    BY DEF Discovered
  <1>3. ASSUME NEW name \in names
        PROVE  /\ found[name] \in Skill
               /\ found[name].scope = scope /\ found[name].content = files.skills[scope][name]
    <2> DEFINE content == files.skills[scope][name]
    <2>1. content \in Usable
      OBVIOUS
    <2>2. found[name] = [scope |-> scope, content |-> content]
      BY <1>2
    <2> HIDE DEF content, found
    <2>3. found[name] \in Skill /\ found[name].scope = scope /\ found[name].content = content
      BY <2>1, <2>2 DEF Skill
    <2> QED BY <2>3 DEF content
  <1>4. both = [k \in all |-> IF k \in names THEN found[k] ELSE catalog[k]]
    BY <1>2 DEF Inserted, Overlaid
  <1>5. all \in SUBSET SkillNames /\ all = names \union old
    BY <1>1, <1>2
  <1>6. ASSUME NEW name \in all
        PROVE  /\ both[name] \in Skill
               /\ \/ name \in DOMAIN catalog /\ both[name] = catalog[name]
                  \/ <<both[name].scope, name, both[name].content>> \in OnDisk(files)
    <2> HIDE DEF both, all, found
    <2>1. CASE name \in names
      <3>1. both[name] = found[name]
        BY <1>4, <2>1
      <3>2. both[name].scope = scope /\ both[name].content = files.skills[scope][name]
        BY <1>3, <2>1, <3>1
      <3>3. <<scope, name, files.skills[scope][name]>> \in OnDisk(files)
        BY <2>1 DEF OnDisk
      <3> QED BY <1>3, <2>1, <3>1, <3>2, <3>3
    <2>2. CASE name \notin names
      <3>1. both[name] = catalog[name] /\ name \in old
        BY <1>4, <1>5, <2>2
      <3> QED BY <1>1, <3>1
    <2> QED BY <2>1, <2>2
  <1>7. both \in [all -> Skill]
    <2>1. both = [k \in all |-> both[k]]
      BY <1>4
    <2> HIDE DEF both, all
    <2> QED BY <1>6, <2>1
  <1>8. both \in Catalogs /\ DOMAIN both = all
    <2> HIDE DEF both, all
    <2> QED BY <1>5, <1>7 DEF Catalogs
  <1> HIDE DEF all
  <1> QED BY <1>6, <1>8

\* A terminal UI that is closed, and no run.
LEMMA ClosedType == Closed \in Tui
  <1> DEFINE shown == Summary(WorkspaceDefault)
             policy == WorkspaceDefault
  <1>1. policy \in RuntimePolicy /\ shown \in SandboxSummary
    BY WorkspaceDefaultType, SummaryType
  <1>2. NoCatalog \in Catalogs
    BY NoCatalogType
  <1>3. Closed = [pc |-> "off", catalog |-> NoCatalog, found |-> "none", policy |-> policy,
                  shown |-> shown, scroll_lines |-> 5, error |-> "none"]
    BY DEF Closed
  <1>4. 5 \in 1..100
    OBVIOUS
  <1> HIDE DEF policy, shown
  <1> QED BY <1>1, <1>2, <1>3, <1>4 DEF Tui

\* Without a run the record of one is one.
LEMMA NoRunType ==
    /\ NoRun \in Run /\ NoRun.names = <<>> /\ NoRun.skills = <<>> /\ NoRun.pc = "none"
    /\ Len(NoRun.skills) <= Len(NoRun.names)
  <1> DEFINE policy == WorkspaceDefault
             none == <<>>
  <1>1. policy \in RuntimePolicy
    BY WorkspaceDefaultType
  <1>2. NoCatalog \in Catalogs
    BY NoCatalogType
  <1>3. /\ none \in Seq(SkillNames) /\ none \in Seq(Scopes)
        /\ none \in Seq([name : SkillNames, skill : Skill])
    OBVIOUS
  <1>4. NoRun = [pc |-> "none", via |-> "tui", names |-> none, docs |-> none,
                 catalog |-> NoCatalog, skills |-> none, policy |-> policy]
    BY DEF NoRun
  <1> HIDE DEF none, policy
  <1>5. NoRun \in Run /\ NoRun.names = none /\ NoRun.skills = none /\ NoRun.pc = "none"
    BY <1>1, <1>2, <1>3, <1>4 DEF Run
  <1>6. Len(<<>>) <= Len(<<>>)
    OBVIOUS
  <1> QED BY <1>5, <1>6 DEF none

\* At first nothing is configured.
LEMMA TypeInit == Init => TypeOK
  <1> SUFFICES ASSUME Init PROVE TypeOK
    OBVIOUS
  <1>1. files \in Files
    <2> DEFINE config == [{ConfigFiles[i] : i \in DOMAIN ConfigFiles} -> {NoContent}]
               instructions == [Scopes -> {[i \in DOMAIN InstructionFiles |-> "absent"]}]
               skills == [Scopes -> [SkillNames -> {"absent", "v1"}]]
    <2>1. files \in [config : config, instructions : instructions, skills : skills]
      BY DEF Init
    <2>2. config \subseteq [Range(ConfigFiles) -> Contents \union {NoContent}]
      BY DEF Range
    <2>3. instructions \subseteq [Scopes -> [DOMAIN InstructionFiles -> Instructions]]
      BY DEF Instructions
    <2>4. skills \subseteq [Scopes -> [SkillNames -> Skills]]
      BY DEF Skills
    <2> HIDE DEF config, instructions, skills
    <2> QED BY <2>1, <2>2, <2>3, <2>4 DEF Files
  <1>2. tui = Closed /\ run = NoRun /\ home \in BOOLEAN
    BY DEF Init
  <1>3. Len(run.skills) <= Len(run.names)
    BY <1>2, NoRunType
  <1>4. edits \in 0..MaxEdits /\ runs \in 0..MaxRuns
    BY StartupAssumption DEF Init
  <1> QED BY <1>1, <1>2, <1>3, <1>4, ClosedType, NoRunType DEF TypeOK

\* The edits of the user.
LEMMA TypeEdit ==
    ASSUME TypeOK, EditConfig \/ EditInstructions \/ EditSkill
    PROVE  TypeOK'
  <1>1. ASSUME NEW after, after \in Files, Edit(after) PROVE TypeOK'
    <2>1. /\ edits' = edits + 1 /\ edits < MaxEdits /\ files' = after
          /\ UNCHANGED <<home, tui, run, runs>>
      BY <1>1 DEF Edit
    <2>2. edits' \in 0..MaxEdits
      BY <2>1, StartupAssumption DEF TypeOK
    <2> QED BY <1>1, <2>1, <2>2 DEF TypeOK
  <1>2. /\ files \in Files
        /\ files.config \in [Range(ConfigFiles) -> Contents \union {NoContent}]
        /\ files.instructions \in [Scopes -> [DOMAIN InstructionFiles -> Instructions]]
        /\ files.skills \in [Scopes -> [SkillNames -> Skills]]
    BY DEF TypeOK, Files
  <1>3. ASSUME NEW i \in DOMAIN ConfigFiles, NEW content \in Contents \union {NoContent}
        PROVE  [files EXCEPT !.config[ConfigFiles[i]] = content] \in Files
    <2>1. ConfigFiles[i] \in Range(ConfigFiles)
      BY DEF Range
    <2>2. [files.config EXCEPT ![ConfigFiles[i]] = content]
              \in [Range(ConfigFiles) -> Contents \union {NoContent}]
      BY <1>2, <2>1
    <2>3. [files EXCEPT !.config[ConfigFiles[i]] = content] =
              [files EXCEPT !.config = [files.config EXCEPT ![ConfigFiles[i]] = content]]
      BY <1>2 DEF Files
    <2> QED BY <1>2, <2>2, <2>3 DEF Files
  <1>4. ASSUME NEW scope \in Scopes, NEW i \in DOMAIN InstructionFiles, NEW content \in Instructions
        PROVE  [files EXCEPT !.instructions[scope][i] = content] \in Files
    <2> DEFINE inner == [files.instructions[scope] EXCEPT ![i] = content]
               outer == [files.instructions EXCEPT ![scope] = inner]
    <2>1. inner \in [DOMAIN InstructionFiles -> Instructions]
      BY <1>2
    <2>2. outer \in [Scopes -> [DOMAIN InstructionFiles -> Instructions]]
      <3> HIDE DEF inner
      <3> QED BY <1>2, <2>1
    <2>3. [files EXCEPT !.instructions[scope][i] = content] = [files EXCEPT !.instructions = outer]
      BY <1>2 DEF Files
    <2> HIDE DEF outer
    <2> QED BY <1>2, <2>2, <2>3 DEF Files
  <1>5. ASSUME NEW scope \in Scopes, NEW name \in SkillNames, NEW skill \in Skills
        PROVE  [files EXCEPT !.skills[scope][name] = skill] \in Files
    <2> DEFINE inner == [files.skills[scope] EXCEPT ![name] = skill]
               outer == [files.skills EXCEPT ![scope] = inner]
    <2>1. inner \in [SkillNames -> Skills]
      BY <1>2
    <2>2. outer \in [Scopes -> [SkillNames -> Skills]]
      <3> HIDE DEF inner
      <3> QED BY <1>2, <2>1
    <2>3. [files EXCEPT !.skills[scope][name] = skill] = [files EXCEPT !.skills = outer]
      BY <1>2 DEF Files
    <2> HIDE DEF outer
    <2> QED BY <1>2, <2>2, <2>3 DEF Files
  <1>6. CASE EditConfig
    BY <1>1, <1>3, <1>6 DEF EditConfig
  <1>7. CASE EditInstructions
    BY <1>1, <1>4, <1>7 DEF EditInstructions
  <1>8. CASE EditSkill
    BY <1>1, <1>5, <1>8 DEF EditSkill
  <1> QED BY <1>6, <1>7, <1>8

\* What ReadConfig makes of the terminal UI.
LEMMA ConfiguredType ==
    ASSUME tui \in Tui, NEW config, ConfigOK(config), Resolvable(config)
    PROVE  Configured(config) \in Tui
  <1> DEFINE policy == IntoRuntimePolicy(config)
             shown == Summary(policy)
             error == IF config.provider = "deepseek" THEN "none" ELSE "provider"
             lines == config.scroll_lines
  <1>1. policy \in RuntimePolicy
    BY PolicyType
  <1>2. shown \in SandboxSummary
    <2> HIDE DEF policy
    <2> QED BY <1>1, SummaryType
  <1>3. error \in {"none", "config", "provider"} /\ lines \in 1..100
    BY DEF Resolvable
  <1>4. Configured(config) = [tui EXCEPT !.pc = "on", !.found = "none", !.policy = policy,
                                         !.shown = shown, !.scroll_lines = lines, !.error = error]
    BY DEF Configured
  <1> HIDE DEF policy, shown, error, lines
  <1> QED BY <1>1, <1>2, <1>3, <1>4 DEF Tui

\* The configuration that is read is one, if it parses.
LEMMA ReadConfigType ==
    ASSUME files \in Files, tui \in Tui
    PROVE  LET content == IF tui.found = "none" THEN [shape |-> "object", values |-> <<>>]
                          ELSE files.config[tui.found]
           IN  Parses(content) => ConfigOK(Merge(content.values))
  <1> DEFINE content == IF tui.found = "none" THEN [shape |-> "object", values |-> <<>>]
                        ELSE files.config[tui.found]
  <1>1. CASE tui.found = "none"
    <2>1. content.values = <<>>
      BY <1>1
    <2> HIDE DEF content
    <2> QED BY <2>1, DefaultConfigType DEF content
  <1>2. CASE tui.found # "none"
    <2>1. tui.found \in Range(ConfigFiles)
      BY <1>2 DEF Tui
    <2>2. files.config \in [Range(ConfigFiles) -> Contents \union {NoContent}]
      BY DEF Files
    <2>3. content = files.config[tui.found] /\ content \in Contents \union {NoContent}
      BY <1>2, <2>1, <2>2
    <2> HIDE DEF content
    <2>4. ASSUME Parses(content) PROVE ConfigOK(Merge(content.values))
      <3>1. content.shape = "object"
        BY <2>4 DEF Parses
      <3>2. NoContent.shape # "object"
        BY DEF NoContent
      <3> QED BY <2>3, <3>1, <3>2, StartupAssumption
    <2> QED BY <2>4 DEF content
  <1> QED BY <1>1, <1>2

\* The terminal UI.
LEMMA TypeTui ==
    ASSUME TypeOK,
           \/ StartTui \/ LoadCatalog("User", "user_skills", "project_skills")
           \/ LoadCatalog("Project", "project_skills", "config")
           \/ FindConfig \/ ReadConfig \/ Quit
    PROVE  TypeOK'
  <1>1. /\ home \in BOOLEAN /\ files \in Files /\ tui \in Tui /\ run \in Run
        /\ edits \in 0..MaxEdits /\ runs \in 0..MaxRuns
        /\ Len(run.skills) <= Len(run.names)
        /\ run.pc # "none" /\ run.via = "tui" => tui.pc = "on"
    BY DEF TypeOK
  \* Those that leave the run alone and are not possible while it is one of the UI.
  <1>2. ASSUME tui' \in Tui, tui.pc # "on", UNCHANGED <<home, files, run, edits, runs>>
        PROVE  TypeOK'
    BY <1>1, <1>2 DEF TypeOK
  <1>3. CASE StartTui
    <2> DEFINE pc == IF home THEN "user_skills" ELSE "project_skills"
    <2>1. tui' = [Closed EXCEPT !.pc = pc] /\ tui.pc = "off" /\ UNCHANGED <<home, files, run, edits, runs>>
      BY <1>3 DEF StartTui
    <2>2. pc \in {"user_skills", "project_skills"}
      OBVIOUS
    <2> HIDE DEF pc
    <2>3. tui' \in Tui
      BY <2>1, <2>2, ClosedType DEF Tui
    <2> QED BY <1>2, <2>1, <2>3
  <1>4. ASSUME NEW scope \in Scopes, NEW pc \in {"user_skills", "project_skills"},
               NEW next \in {"project_skills", "config"}, LoadCatalog(scope, pc, next)
        PROVE  TypeOK'
    <2>1. /\ tui.pc # "on" /\ UNCHANGED <<home, files, run, edits, runs>>
          /\ tui' = Closed \/ tui' = [tui EXCEPT !.catalog = Inserted(@, scope), !.pc = next]
      BY <1>4 DEF LoadCatalog
    <2>2. Inserted(tui.catalog, scope) \in Catalogs
      BY <1>1, InsertedFacts DEF Tui
    <2>3. CASE tui' = Closed
      BY <1>2, <2>1, <2>3, ClosedType
    <2>4. CASE tui' = [tui EXCEPT !.catalog = Inserted(@, scope), !.pc = next]
      <3>1. tui' \in Tui
        BY <1>1, <2>2, <2>4 DEF Tui
      <3> QED BY <1>2, <2>1, <3>1
    <2> QED BY <2>1, <2>3, <2>4
  <1>5. CASE FindConfig
    <2> DEFINE present == {i \in DOMAIN ConfigFiles : files.config[ConfigFiles[i]].shape # "absent"}
               first == CHOOSE i \in present : \A j \in present : i <= j
               found == IF home /\ present # {} THEN ConfigFiles[first] ELSE "none"
    <2>1. tui.pc = "config" /\ tui' = [tui EXCEPT !.pc = "read", !.found = found]
          /\ UNCHANGED <<home, files, run, edits, runs>>
      BY <1>5 DEF FindConfig
    <2>2. found \in Range(ConfigFiles) \union {"none"}
      <3>1. CASE home /\ present # {}
        <4>1. present \in SUBSET Nat
          <5>1. DOMAIN ConfigFiles = 1..Len(ConfigFiles) /\ Len(ConfigFiles) \in Nat
            BY StartupAssumption, LenProperties
          <5>2. 1..Len(ConfigFiles) \subseteq Nat
            BY <5>1
          <5> QED BY <5>1, <5>2
        <4>2. \E i \in present : \A j \in present : i <= j
          <5> HIDE DEF present
          <5> QED BY <3>1, <4>1, LeastNumber
        <4>3. first \in present
          <5> HIDE DEF present
          <5> QED BY <4>2
        <4>4. ConfigFiles[first] \in Range(ConfigFiles)
          <5>1. first \in DOMAIN ConfigFiles
            BY <4>3
          <5> HIDE DEF first
          <5> QED BY <5>1 DEF Range
        <4> HIDE DEF first, present
        <4> QED BY <3>1, <4>4
      <3>2. CASE ~(home /\ present # {})
        <4> HIDE DEF first, present
        <4> QED BY <3>2
      <3> QED BY <3>1, <3>2
    <2> HIDE DEF found
    <2>3. tui' \in Tui
      BY <1>1, <2>1, <2>2 DEF Tui
    <2> QED BY <1>2, <2>1, <2>3
  <1>6. CASE ReadConfig
    <2> DEFINE content == IF tui.found = "none" THEN [shape |-> "object", values |-> <<>>]
                          ELSE files.config[tui.found]
               config == Merge(content.values)
    <2>1. /\ tui.pc = "read" /\ UNCHANGED <<home, files, run, edits, runs>>
          /\ tui' = IF Parses(content) /\ Resolvable(config) THEN Configured(config) ELSE Unconfigured
      BY <1>6 DEF ReadConfig
    <2>2. Parses(content) => ConfigOK(config)
      BY <1>1, ReadConfigType
    <2> HIDE DEF content, config
    <2>3. Unconfigured \in Tui
      BY <1>1 DEF Unconfigured, Tui
    <2>4. tui' \in Tui
      BY <1>1, <2>1, <2>2, <2>3, ConfiguredType
    <2> QED BY <1>2, <2>1, <2>4
  <1>7. CASE Quit
    <2>1. /\ tui' = Closed /\ UNCHANGED <<home, files, edits, runs>>
          /\ run' = IF run.via = "tui" THEN NoRun ELSE run
      BY <1>7 DEF Quit
    <2>2. CASE run.via = "tui"
      <3>1. run' = NoRun
        BY <2>1, <2>2
      <3>2. Len(run'.skills) <= Len(run'.names) /\ run'.pc = "none"
        BY <3>1, NoRunType
      <3> QED BY <1>1, <2>1, <3>1, <3>2, ClosedType, NoRunType DEF TypeOK
    <2>3. CASE run.via # "tui"
      BY <1>1, <2>1, <2>3, ClosedType DEF TypeOK
    <2> QED BY <2>2, <2>3
  <1>8. "User" \in Scopes /\ "Project" \in Scopes
    BY DEF Scopes
  <1> QED BY <1>3, <1>4, <1>5, <1>6, <1>7, <1>8

\* The runs.
LEMMA TypeRun ==
    ASSUME TypeOK,
           \/ SubmitInTui \/ SubmitByCommand
           \/ RunDocs("User", "user_docs", "project_docs")
           \/ RunDocs("Project", "project_docs", IF home THEN "user_skills" ELSE "project_skills")
           \/ RunSkills("User", "user_skills", "project_skills")
           \/ RunSkills("Project", "project_skills", "select")
           \/ Select \/ AskForPath \/ AskForUrl \/ FinishRun
    PROVE  TypeOK'
  <1>1. /\ home \in BOOLEAN /\ files \in Files /\ tui \in Tui /\ run \in Run
        /\ edits \in 0..MaxEdits /\ runs \in 0..MaxRuns
        /\ Len(run.skills) <= Len(run.names)
        /\ run.pc # "none" /\ run.via = "tui" => tui.pc = "on"
    BY DEF TypeOK
  \* A step of a run leaves the rest alone, and the run where it began.
  <1>2. ASSUME run' = NoRun \/ (run' \in Run /\ run.pc # "none" /\ run'.via = run.via
                                /\ Len(run'.skills) <= Len(run'.names)),
               UNCHANGED <<home, files, tui, edits>>, runs' \in 0..MaxRuns
        PROVE  TypeOK'
    <2>1. CASE run' = NoRun
      <3>1. Len(run'.skills) <= Len(run'.names) /\ run'.pc = "none"
        BY <2>1, NoRunType
      <3> QED BY <1>1, <1>2, <2>1, <3>1, NoRunType DEF TypeOK
    <2>2. CASE run' # NoRun
      BY <1>1, <1>2, <2>2 DEF TypeOK
    <2> QED BY <2>1, <2>2
  <1>3. ASSUME NEW via \in {"tui", "command"}, NEW names \in Seq(SkillNames),
               NEW policy \in RuntimePolicy, Submit(via, names, policy), via = "tui" => tui.pc = "on"
        PROVE  TypeOK'
    <2> DEFINE pc == IF home THEN "user_docs" ELSE "project_docs"
    <2>1. /\ runs < MaxRuns /\ runs' = runs + 1 /\ UNCHANGED <<home, files, tui, edits>>
          /\ run' = [NoRun EXCEPT !.pc = pc, !.via = via, !.names = names, !.policy = policy]
      BY <1>3 DEF Submit
    <2>2. pc \in {"user_docs", "project_docs"}
      OBVIOUS
    <2> HIDE DEF pc
    <2>3. run' \in Run /\ run'.via = via /\ run'.names = names /\ run'.skills = NoRun.skills
      BY <2>1, <2>2, NoRunType DEF Run
    <2>4. Len(run'.skills) <= Len(run'.names)
      <3>1. Len(<<>>) = 0
        OBVIOUS
      <3>2. Len(names) \in Nat
        BY LenProperties
      <3>3. 0 <= Len(names)
        BY <3>2
      <3>4. Len(run'.skills) = 0 /\ Len(run'.names) = Len(names)
        BY <2>3, <3>1, NoRunType
      <3> QED BY <3>3, <3>4
    <2>5. runs' \in 0..MaxRuns
      <3>1. runs \in 0..MaxRuns /\ runs < MaxRuns /\ runs' = runs + 1 /\ MaxRuns \in Nat
        BY <1>1, <2>1, StartupAssumption
      <3> QED BY <3>1
    <2> QED BY <1>1, <1>3, <2>1, <2>3, <2>4, <2>5 DEF TypeOK
  <1>4. ASSUME NEW names, NEW S \in SUBSET SkillNames, names \in Mentions(S)
        PROVE  names \in Seq(SkillNames)
    <2>1. PICK n \in 0..2 : names \in [1..n -> S]
      BY <1>4 DEF Mentions
    <2>2. n \in Nat /\ DOMAIN names = 1..n /\ names = [k \in 1..n |-> names[k]]
          /\ \A k \in 1..n : names[k] \in S
      BY <2>1
    <2>3. \A k \in 1..n : names[k] \in SkillNames
      BY <2>2
    <2>4. names \in [1..n -> SkillNames]
      BY <2>2, <2>3
    <2> QED BY <2>2, <2>4, SeqDef
  <1>5. CASE SubmitInTui
    <2>1. PICK names \in Mentions(DOMAIN tui.catalog) : Submit("tui", names, tui.policy)
      BY <1>5 DEF SubmitInTui
    <2>2. DOMAIN tui.catalog \in SUBSET SkillNames
      <3>1. tui.catalog \in Catalogs
        BY <1>1 DEF Tui
      <3> QED BY <3>1 DEF Catalogs
    <2>3. names \in Seq(SkillNames)
      BY <1>4, <2>2
    <2>4. tui.policy \in RuntimePolicy
      BY <1>1 DEF Tui
    <2> QED BY <1>3, <1>5, <2>1, <2>3, <2>4 DEF SubmitInTui
  <1>6. CASE SubmitByCommand
    <2>1. PICK names \in Mentions(SkillNames) : Submit("command", names, WorkspaceDefault)
      BY <1>6 DEF SubmitByCommand
    <2>2. names \in Seq(SkillNames)
      BY <1>4
    <2> QED BY <1>3, <2>1, <2>2, WorkspaceDefaultType
  <1>7. ASSUME NEW scope \in Scopes, NEW pc \in {"user_docs", "project_docs"},
               NEW next \in {"project_docs", "user_skills", "project_skills"}, RunDocs(scope, pc, next)
        PROVE  TypeOK'
    <2>1. /\ run.pc # "none" /\ UNCHANGED <<home, files, tui, edits, runs>>
          /\ run' = NoRun \/ run' = [run EXCEPT !.docs = Pushed(@, scope), !.pc = next]
      BY <1>7 DEF RunDocs
    <2>2. Pushed(run.docs, scope) \in Seq(Scopes)
      <3>1. run.docs \in Seq(Scopes)
        BY <1>1 DEF Run
      <3>2. Append(run.docs, scope) \in Seq(Scopes)
        BY <3>1, AppendProperties
      <3> QED BY <3>1, <3>2 DEF Pushed
    <2>3. CASE run' = [run EXCEPT !.docs = Pushed(@, scope), !.pc = next]
      <3>1. run' \in Run /\ run'.via = run.via /\ run'.skills = run.skills /\ run'.names = run.names
        BY <1>1, <2>2, <2>3 DEF Run
      <3> QED BY <1>1, <1>2, <2>1, <3>1
    <2> QED BY <1>1, <1>2, <2>1, <2>3
  <1>8. ASSUME NEW scope \in Scopes, NEW pc \in {"user_skills", "project_skills"},
               NEW next \in {"project_skills", "select"}, RunSkills(scope, pc, next)
        PROVE  TypeOK'
    <2>1. /\ run.pc # "none" /\ UNCHANGED <<home, files, tui, edits, runs>>
          /\ run' = NoRun \/ run' = [run EXCEPT !.catalog = Inserted(@, scope), !.pc = next]
      BY <1>8 DEF RunSkills
    <2>2. Inserted(run.catalog, scope) \in Catalogs
      BY <1>1, InsertedFacts DEF Run
    <2>3. CASE run' = [run EXCEPT !.catalog = Inserted(@, scope), !.pc = next]
      <3>1. run' \in Run /\ run'.via = run.via /\ run'.skills = run.skills /\ run'.names = run.names
        BY <1>1, <2>2, <2>3 DEF Run
      <3> QED BY <1>1, <1>2, <2>1, <3>1
    <2> QED BY <1>1, <1>2, <2>1, <2>3
  <1>9. CASE Select
    <2> DEFINE skills == Selected(run.catalog, run.names)
    <2>1. /\ run.pc = "select" /\ UNCHANGED <<home, files, tui, edits, runs>>
          /\ \/ run' = NoRun
             \/ /\ Range(run.names) \subseteq DOMAIN run.catalog
                /\ run' = [run EXCEPT !.pc = "running", !.skills = skills]
      BY <1>9 DEF Select
    <2>2. CASE Range(run.names) \subseteq DOMAIN run.catalog
               /\ run' = [run EXCEPT !.pc = "running", !.skills = skills]
      <3>1. run.names \in Seq(SkillNames) /\ run.catalog \in Catalogs
        BY <1>1 DEF Run
      <3>2. Chosen(run.catalog, run.names, skills, Len(run.names))
        BY <3>1, SelectedFacts
      <3>3. \A x \in Range(run.names) :
                [name |-> x, skill |-> run.catalog[x]] \in [name : SkillNames, skill : Skill]
        <4>1. \A x \in Range(run.names) : x \in SkillNames /\ run.catalog[x] \in Skill
          BY <2>2, <3>1 DEF Catalogs
        <4> QED BY <4>1
      <3> HIDE DEF skills
      <3>4. {[name |-> x, skill |-> run.catalog[x]] : x \in Range(run.names)}
                \subseteq [name : SkillNames, skill : Skill]
        BY <3>3
      <3>5. skills \in Seq([name : SkillNames, skill : Skill]) /\ Len(skills) <= Len(run.names)
        BY <3>2, <3>4, SeqMonotonic DEF Chosen
      <3>6. run' \in Run /\ run'.via = run.via /\ run'.skills = skills /\ run'.names = run.names
        BY <1>1, <2>2, <3>5 DEF Run
      <3> QED BY <1>1, <1>2, <2>1, <3>5, <3>6
    <2> QED BY <1>1, <1>2, <2>1, <2>2
  <1>10. CASE AskForPath \/ AskForUrl
    <2>1. /\ run.pc = "running" /\ UNCHANGED <<home, files, tui, edits, runs>>
          /\ run' = [run EXCEPT !.pc = "asked"]
      BY <1>10 DEF AskForPath, AskForUrl
    <2>2. run' \in Run /\ run'.via = run.via /\ run'.skills = run.skills /\ run'.names = run.names
      BY <1>1, <2>1 DEF Run
    <2> QED BY <1>1, <1>2, <2>1, <2>2
  <1>11. CASE FinishRun
    BY <1>1, <1>2, <1>11 DEF FinishRun
  <1>12. "User" \in Scopes /\ "Project" \in Scopes
    BY DEF Scopes
  <1>13. (IF home THEN "user_skills" ELSE "project_skills") \in {"user_skills", "project_skills"}
    OBVIOUS
  <1> QED BY <1>5, <1>6, <1>7, <1>8, <1>9, <1>10, <1>11, <1>12, <1>13

\* Each step keeps the types.
LEMMA TypeNext == ASSUME TypeOK, [Next]_vars PROVE TypeOK'
  <1>1. CASE UNCHANGED vars
    BY <1>1 DEF vars, TypeOK
  <1> QED BY <1>1, TypeEdit, TypeTui, TypeRun DEF Next

\* The files, the terminal UI and the run have their types: the policy a run is
\* given is one whatever the configuration says, for an object of another shape
\* is an error (load_tui_configuration, into_runtime_policy).
THEOREM TypeCorrect == Spec => []TypeOK
  <1> QED BY TypeInit, TypeNext, PTL DEF Spec

-----------------------------------------------------------------------------
(***************************************************************************)
(* The policy in force.                                                    *)
(***************************************************************************)
\* What is shown is said of the policy the terminal UI has, which before the
\* configuration and after an error in it is the default one.
DefaultTui == tui.policy = WorkspaceDefault /\ tui.scroll_lines = 5

PolicyInv ==
    /\ OfOneFile(tui.policy, tui.scroll_lines)
    /\ tui.shown = Summary(tui.policy)
    /\ tui.pc # "on" \/ tui.error = "config" => DefaultTui
    /\ run.pc # "none" /\ run.via = "tui" => tui.pc = "on" /\ run.policy = tui.policy
    /\ run.pc # "none" /\ run.via # "tui" => tui.pc = "off"

\* Without a file the settings are the default ones.
LEMMA DefaultSettings ==
    IntoRuntimePolicy(Merge(<<>>)) = WorkspaceDefault /\ Merge(<<>>).scroll_lines = 5
  <1> DEFINE workdir == [absolute |-> FALSE, parts |-> <<".">>]
             policy == IntoRuntimePolicy(DefaultConfig)
  <1>1. Merge(<<>>) = DefaultConfig
    <2>1. DefaultConfig = [k \in DOMAIN DefaultConfig |-> DefaultConfig[k]]
      BY DEF DefaultConfig
    <2> QED BY <2>1, OverlaidNothing DEF Merge
  <1>2. /\ DefaultConfig.workdirs = <<workdir>> /\ DefaultConfig.rules = <<DefaultRule>>
        /\ DefaultConfig.http = <<>> /\ DefaultConfig.native = <<>> /\ DefaultConfig.scroll_lines = 5
    BY DEF DefaultConfig
  <1>3. policy.workdirs = <<Root>>
    <2>1. ResolveWorkdir(workdir) = Root
      BY DEF ResolveWorkdir
    <2>2. policy.workdirs = [w \in 1..1 |-> ResolveWorkdir(<<workdir>>[w])]
      BY <1>2 DEF IntoRuntimePolicy
    <2> HIDE DEF workdir, policy
    <2> QED BY <2>1, <2>2
  <1>4. policy.rules = <<IntoRule(DefaultRule)>>
    <2>1. policy.rules = [r \in 1..1 |-> IntoRule(<<DefaultRule>>[r])]
      BY <1>2 DEF IntoRuntimePolicy
    <2> HIDE DEF policy
    <2> QED BY <2>1
  <1>5. policy.http = <<>>
    <2>1. policy.http = [r \in {} |-> Overlaid(DefaultConfig.http[r], DefaultHttpRule)]
      BY <1>2 DEF IntoRuntimePolicy
    <2> HIDE DEF policy
    <2> QED BY <2>1
  <1>6. policy = [workdirs |-> policy.workdirs, rules |-> policy.rules, http |-> policy.http,
                  native |-> <<>>]
    BY <1>2 DEF IntoRuntimePolicy
  <1> HIDE DEF policy
  <1>7. policy = WorkspaceDefault
    BY <1>3, <1>4, <1>5, <1>6 DEF WorkspaceDefault
  <1> QED BY <1>1, <1>2, <1>7 DEF policy

\* What is read without an error is one of the files, or their absence.
LEMMA SettingsAreRead ==
    ASSUME files \in Files, tui \in Tui
    PROVE  LET content == IF tui.found = "none" THEN [shape |-> "object", values |-> <<>>]
                          ELSE files.config[tui.found]
               config == Merge(content.values)
           IN  Parses(content) /\ Resolvable(config) =>
                   OfOneFile(IntoRuntimePolicy(config), config.scroll_lines)
  <1> DEFINE content == IF tui.found = "none" THEN [shape |-> "object", values |-> <<>>]
                        ELSE files.config[tui.found]
             Goal == Parses(content) /\ Resolvable(Merge(content.values)) =>
                        OfOneFile(IntoRuntimePolicy(Merge(content.values)),
                                  Merge(content.values).scroll_lines)
  <1>1. CASE tui.found = "none"
    <2>1. content.values = <<>>
      BY <1>1
    <2> HIDE DEF content
    <2>2. Goal
      BY <2>1, DefaultSettings DEF OfOneFile
    <2> QED BY <2>2 DEF content
  <1>2. CASE tui.found # "none"
    <2>1. tui.found \in Range(ConfigFiles)
      BY <1>2 DEF Tui
    <2>2. files.config \in [Range(ConfigFiles) -> Contents \union {NoContent}]
      BY DEF Files
    <2>3. content \in Contents \union {NoContent}
      BY <1>2, <2>1, <2>2
    <2>4. ~Parses(NoContent)
      BY DEF Parses, NoContent
    <2> HIDE DEF content
    <2>5. Goal
      BY <2>3, <2>4 DEF OfOneFile
    <2> QED BY <2>5 DEF content
  <1> QED BY <1>1, <1>2

\* Nothing is configured at first.
LEMMA ClosedPolicy ==
    /\ Closed.shown = Summary(Closed.policy) /\ Closed.policy = WorkspaceDefault
    /\ Closed.scroll_lines = 5 /\ Closed.pc = "off"
  <1> DEFINE policy == WorkspaceDefault
             shown == Summary(WorkspaceDefault)
  <1>1. Closed = [pc |-> "off", catalog |-> NoCatalog, found |-> "none", policy |-> policy,
                  shown |-> shown, scroll_lines |-> 5, error |-> "none"]
    BY DEF Closed
  <1>2. shown = Summary(policy)
    OBVIOUS
  <1> HIDE DEF shown, policy
  <1>3. Closed.shown = shown /\ Closed.policy = policy /\ Closed.scroll_lines = 5 /\ Closed.pc = "off"
    BY <1>1
  <1> QED BY <1>2, <1>3 DEF policy

\* At first the policy shown is the default one.
LEMMA PolicyInit == Init => PolicyInv
  <1>1. ASSUME Init PROVE tui = Closed /\ run.pc = "none"
    BY <1>1, NoRunType DEF Init
  <1> QED BY <1>1, ClosedPolicy DEF PolicyInv, DefaultTui, OfOneFile

\* The policy changes only while there is no run, and what is shown with it.
LEMMA PolicyNext == ASSUME TypeOK, PolicyInv, [Next]_vars PROVE PolicyInv'
  <1>1. tui \in Tui /\ run \in Run /\ files \in Files
    BY DEF TypeOK
  <1>2. ASSUME UNCHANGED <<tui, run>> PROVE PolicyInv'
    BY <1>2 DEF PolicyInv, DefaultTui, OfOneFile
  \* A run begins, goes on or ends.
  <1>3. ASSUME UNCHANGED tui, run' = NoRun PROVE PolicyInv'
    <2>1. run'.pc = "none"
      BY <1>3, NoRunType
    <2> QED BY <1>3, <2>1 DEF PolicyInv, DefaultTui, OfOneFile
  <1>4. ASSUME UNCHANGED tui, run.pc # "none", run'.via = run.via, run'.policy = run.policy
        PROVE  PolicyInv'
    BY <1>4 DEF PolicyInv, DefaultTui, OfOneFile
  <1>5. ASSUME NEW via, NEW names, NEW policy, Submit(via, names, policy),
               via = "tui" => tui.pc = "on" /\ policy = tui.policy,
               via # "tui" => tui.pc = "off"
        PROVE  PolicyInv'
    <2> DEFINE pc == IF home THEN "user_docs" ELSE "project_docs"
    <2>1. UNCHANGED tui /\ run' = [NoRun EXCEPT !.pc = pc, !.via = via, !.names = names, !.policy = policy]
      BY <1>5 DEF Submit
    <2> HIDE DEF pc
    <2>2. run'.via = via /\ run'.policy = policy
      BY <2>1, NoRunType DEF Run
    <2> QED BY <1>5, <2>1, <2>2 DEF PolicyInv, DefaultTui, OfOneFile
  <1>6. ASSUME NEW pc, NEW next, NEW scope, RunDocs(scope, pc, next), pc # "none" PROVE PolicyInv'
    <2>1. CASE run' = NoRun
      BY <1>3, <1>6, <2>1 DEF RunDocs
    <2>2. CASE run' # NoRun
      <3>1. UNCHANGED tui /\ run.pc # "none" /\ run' = [run EXCEPT !.docs = Pushed(@, scope), !.pc = next]
        BY <1>6, <2>2 DEF RunDocs
      <3>2. run'.via = run.via /\ run'.policy = run.policy
        BY <1>1, <3>1 DEF Run
      <3> QED BY <1>4, <3>1, <3>2
    <2> QED BY <2>1, <2>2
  <1>7. ASSUME NEW pc, NEW next, NEW scope, RunSkills(scope, pc, next), pc # "none" PROVE PolicyInv'
    <2>1. CASE run' = NoRun
      BY <1>3, <1>7, <2>1 DEF RunSkills
    <2>2. CASE run' # NoRun
      <3>1. UNCHANGED tui /\ run.pc # "none" /\ run' = [run EXCEPT !.catalog = Inserted(@, scope), !.pc = next]
        BY <1>7, <2>2 DEF RunSkills
      <3>2. run'.via = run.via /\ run'.policy = run.policy
        BY <1>1, <3>1 DEF Run
      <3> QED BY <1>4, <3>1, <3>2
    <2> QED BY <2>1, <2>2
  <1>8. CASE Select
    <2>1. CASE run' = NoRun
      BY <1>3, <1>8, <2>1 DEF Select
    <2>2. CASE run' # NoRun
      <3>1. /\ UNCHANGED tui /\ run.pc = "select"
            /\ run' = [run EXCEPT !.pc = "running", !.skills = Selected(run.catalog, run.names)]
        BY <1>8, <2>2 DEF Select
      <3>2. run'.via = run.via /\ run'.policy = run.policy
        BY <1>1, <3>1 DEF Run
      <3> QED BY <1>4, <3>1, <3>2
    <2> QED BY <2>1, <2>2
  <1>9. CASE AskForPath \/ AskForUrl
    <2>1. UNCHANGED tui /\ run.pc = "running" /\ run' = [run EXCEPT !.pc = "asked"]
      BY <1>9 DEF AskForPath, AskForUrl
    <2>2. run'.via = run.via /\ run'.policy = run.policy
      BY <1>1, <2>1 DEF Run
    <2> QED BY <1>4, <2>1, <2>2
  <1>10. CASE FinishRun
    BY <1>3, <1>10 DEF FinishRun
  \* The terminal UI starts and ends.
  <1>11. ASSUME UNCHANGED run, run.pc = "none", tui'.policy = WorkspaceDefault, tui'.scroll_lines = 5,
                tui'.shown = Summary(WorkspaceDefault)
         PROVE  PolicyInv'
    BY <1>11 DEF PolicyInv, DefaultTui, OfOneFile
  <1>12. tui.pc # "on" /\ tui.pc # "off" => run.pc = "none"
    BY DEF PolicyInv
  <1>13. CASE StartTui
    <2> DEFINE pc == IF home THEN "user_skills" ELSE "project_skills"
    <2>1. UNCHANGED run /\ run.pc = "none" /\ tui' = [Closed EXCEPT !.pc = pc]
      BY <1>13 DEF StartTui
    <2> HIDE DEF pc
    <2>2. /\ tui'.policy = Closed.policy /\ tui'.scroll_lines = Closed.scroll_lines
          /\ tui'.shown = Closed.shown
      BY <2>1, ClosedType DEF Tui
    <2> QED BY <1>11, <2>1, <2>2, ClosedPolicy
  <1>14. ASSUME UNCHANGED run, tui.pc # "on", tui.pc # "off", tui'.policy = tui.policy,
                tui'.scroll_lines = tui.scroll_lines, tui'.shown = tui.shown
         PROVE  PolicyInv'
    BY <1>11, <1>12, <1>14 DEF PolicyInv, DefaultTui, OfOneFile
  <1>15. ASSUME NEW scope, NEW pc, NEW next, pc # "on", pc # "off", LoadCatalog(scope, pc, next)
         PROVE  PolicyInv'
    <2>1. CASE tui' = Closed
      BY <1>11, <1>12, <1>15, <2>1, ClosedPolicy DEF LoadCatalog
    <2>2. CASE tui' # Closed
      <3>1. /\ UNCHANGED run /\ tui.pc # "on" /\ tui.pc # "off"
            /\ tui' = [tui EXCEPT !.catalog = Inserted(@, scope), !.pc = next]
        BY <1>15, <2>2 DEF LoadCatalog
      <3>2. tui'.policy = tui.policy /\ tui'.scroll_lines = tui.scroll_lines /\ tui'.shown = tui.shown
        BY <1>1, <3>1 DEF Tui
      <3> QED BY <1>14, <3>1, <3>2
    <2> QED BY <2>1, <2>2
  <1>16. CASE FindConfig
    <2>1. PICK found : tui.pc = "config" /\ tui' = [tui EXCEPT !.pc = "read", !.found = found] /\ UNCHANGED run
      BY <1>16 DEF FindConfig
    <2>2. tui'.policy = tui.policy /\ tui'.scroll_lines = tui.scroll_lines /\ tui'.shown = tui.shown
      BY <1>1, <2>1 DEF Tui
    <2> QED BY <1>14, <2>1, <2>2
  <1>17. CASE ReadConfig
    <2>1. PICK config : \/ /\ tui' = Configured(config)
                           /\ OfOneFile(IntoRuntimePolicy(config), config.scroll_lines)
                        \/ tui' = Unconfigured
      BY <1>1, <1>17, SettingsAreRead DEF ReadConfig
    <2>2. tui.pc = "read" /\ UNCHANGED run
      BY <1>17 DEF ReadConfig
    <2>3. CASE tui' = Unconfigured
      <3>1. tui'.policy = tui.policy /\ tui'.scroll_lines = tui.scroll_lines /\ tui'.shown = tui.shown
        BY <1>1, <2>3 DEF Unconfigured, Tui
      <3> QED BY <1>14, <2>2, <3>1
    <2>4. CASE /\ tui' = Configured(config)
               /\ OfOneFile(IntoRuntimePolicy(config), config.scroll_lines)
      <3> DEFINE policy == IntoRuntimePolicy(config)
                 shown == Summary(policy)
                 error == IF config.provider = "deepseek" THEN "none" ELSE "provider"
                 lines == config.scroll_lines
      <3>1. tui' = [tui EXCEPT !.pc = "on", !.found = "none", !.policy = policy,
                               !.shown = shown, !.scroll_lines = lines, !.error = error]
        BY <2>4 DEF Configured
      <3>2. error # "config"
        OBVIOUS
      <3>3. OfOneFile(policy, lines)
        BY <2>4
      <3> HIDE DEF error, lines, shown, policy
      <3>4. /\ tui'.policy = policy /\ tui'.shown = shown /\ tui'.error = error /\ tui'.pc = "on"
            /\ tui'.scroll_lines = lines
        BY <1>1, <3>1 DEF Tui
      <3>5. tui'.shown = Summary(tui'.policy)
        BY <3>4 DEF shown
      <3>6. run'.pc = "none"
        BY <1>12, <2>2
      <3> QED BY <3>2, <3>3, <3>4, <3>5, <3>6 DEF PolicyInv, OfOneFile
    <2> QED BY <2>1, <2>3, <2>4
  <1>18. CASE Quit
    <2>1. tui' = Closed /\ tui.pc = "on" /\ run' = IF run.via = "tui" THEN NoRun ELSE run
      BY <1>18 DEF Quit
    <2>2. run'.pc = "none"
      BY <2>1, NoRunType DEF PolicyInv
    <2> QED BY <2>1, <2>2, ClosedPolicy DEF PolicyInv, DefaultTui, OfOneFile
  <1>19. CASE UNCHANGED vars
    BY <1>2, <1>19 DEF vars
  <1>20. CASE EditConfig \/ EditInstructions \/ EditSkill
    BY <1>2, <1>20 DEF EditConfig, EditInstructions, EditSkill, Edit
  <1>21. CASE SubmitInTui
    BY <1>5, <1>21 DEF SubmitInTui
  <1>22. CASE SubmitByCommand
    BY <1>5, <1>22 DEF SubmitByCommand
  <1>23. CASE \/ LoadCatalog("User", "user_skills", "project_skills")
              \/ LoadCatalog("Project", "project_skills", "config")
    BY <1>15, <1>23
  <1>24. CASE \/ RunDocs("User", "user_docs", "project_docs")
              \/ RunDocs("Project", "project_docs", IF home THEN "user_skills" ELSE "project_skills")
    <2>1. "user_docs" # "none" /\ "project_docs" # "none"
      OBVIOUS
    <2> QED BY <1>6, <1>24, <2>1
  <1>25. CASE \/ RunSkills("User", "user_skills", "project_skills")
              \/ RunSkills("Project", "project_skills", "select")
    BY <1>7, <1>25
  <1> QED BY <1>8, <1>9, <1>10, <1>13, <1>16, <1>17, <1>18, <1>19, <1>20, <1>21, <1>22, <1>23,
             <1>24, <1>25 DEF Next

\* The policy, with the types.
LEMMA PolicyAlways == Spec => [](TypeOK /\ PolicyInv)
  <1>1. Init => TypeOK /\ PolicyInv
    BY TypeInit, PolicyInit
  <1>2. TypeOK /\ PolicyInv /\ [Next]_vars => (TypeOK /\ PolicyInv)'
    BY TypeNext, PolicyNext
  <1> QED BY <1>1, <1>2, PTL DEF Spec

\* However the files change, the policy of the UI's runs is that of one file
\* without an error or the default one, and so are the other settings: a
\* configuration with an error leaves nothing of itself behind
\* (load_tui_configuration).
THEOREM PoliciesAreWhole == Spec => []PolicyIsWhole
  <1>1. TypeOK /\ PolicyInv => PolicyIsWhole
    <2>1. ASSUME PolicyInv, tui.pc = "on", run.pc # "none" PROVE run.policy = tui.policy
      BY <2>1 DEF PolicyInv
    <2> QED BY <2>1 DEF PolicyInv, DefaultTui, OfOneFile, PolicyIsWhole
  <1> QED BY <1>1, PolicyAlways, PTL

-----------------------------------------------------------------------------
(***************************************************************************)
(* The questions to the policy.                                            *)
(***************************************************************************)
\* An answer is the one the policy of the run gives, while the run waits for it.
DecisionInv ==
    /\ decision.asked = "path" =>
        /\ run.pc = "asked" /\ decision.of \in PathRequests
        /\ decision.answer = DecidePathAccess(run.policy, decision.of.path, decision.of.access)
    /\ decision.asked = "url" =>
        /\ run.pc = "asked"
        /\ decision.answer = HttpRequest(run.policy, decision.of.method, decision.of.url)

\* Nothing is asked at first.
LEMMA NothingAsked == NoDecision.asked # "path" /\ NoDecision.asked # "url"
  BY DEF NoDecision

\* A step that leaves question and run alone, or forgets the question, or a
\* step of a run that has not asked yet, has no part in it.
LEMMA DecisionNext == ASSUME TypeOK, DecisionInv, [Next]_vars PROVE DecisionInv'
  <1>1. run \in Run
    BY DEF TypeOK
  <1>2. ASSUME UNCHANGED <<run, decision>> PROVE DecisionInv'
    BY <1>2 DEF DecisionInv
  <1>3. ASSUME decision' = NoDecision PROVE DecisionInv'
    BY <1>3, NothingAsked DEF DecisionInv
  <1>4. ASSUME run.pc # "asked", UNCHANGED decision PROVE DecisionInv'
    BY <1>4 DEF DecisionInv
  <1>5. CASE AskForPath
    <2>1. PICK request \in PathRequests :
             decision' = [asked |-> "path", of |-> request,
                          answer |-> DecidePathAccess(run.policy, request.path, request.access)]
      BY <1>5 DEF AskForPath
    <2>2. run' = [run EXCEPT !.pc = "asked"]
      BY <1>5 DEF AskForPath
    <2>3. run'.pc = "asked" /\ run'.policy = run.policy
      BY <1>1, <2>2 DEF Run
    <2> DEFINE answer == DecidePathAccess(run.policy, request.path, request.access)
    <2>4. decision' = [asked |-> "path", of |-> request, answer |-> answer]
      BY <2>1
    <2> HIDE DEF answer
    <2>5. decision'.asked = "path" /\ decision'.of = request /\ decision'.answer = answer
      BY <2>4
    <2>6. answer = DecidePathAccess(run'.policy, decision'.of.path, decision'.of.access)
      BY <2>3, <2>5 DEF answer
    <2> QED BY <2>3, <2>5, <2>6 DEF DecisionInv
  <1>6. CASE AskForUrl
    <2>1. PICK request \in HttpRequests :
             decision' = [asked |-> "url", of |-> request,
                          answer |-> HttpRequest(run.policy, request.method, request.url)]
      BY <1>6 DEF AskForUrl
    <2>2. run' = [run EXCEPT !.pc = "asked"]
      BY <1>6 DEF AskForUrl
    <2>3. run'.pc = "asked" /\ run'.policy = run.policy
      BY <1>1, <2>2 DEF Run
    <2> DEFINE answer == HttpRequest(run.policy, request.method, request.url)
    <2>4. decision' = [asked |-> "url", of |-> request, answer |-> answer]
      BY <2>1
    <2> HIDE DEF answer
    <2>5. decision'.asked = "url" /\ decision'.of = request /\ decision'.answer = answer
      BY <2>4
    <2>6. answer = HttpRequest(run'.policy, decision'.of.method, decision'.of.url)
      BY <2>3, <2>5 DEF answer
    <2> QED BY <2>3, <2>5, <2>6 DEF DecisionInv
  <1>7. CASE Quit \/ FinishRun \/ SubmitInTui \/ SubmitByCommand
    BY <1>3, <1>7 DEF Quit, FinishRun, SubmitInTui, SubmitByCommand, Submit
  <1>8. CASE \/ UNCHANGED vars \/ EditConfig \/ EditInstructions \/ EditSkill
             \/ StartTui \/ LoadCatalog("User", "user_skills", "project_skills")
             \/ LoadCatalog("Project", "project_skills", "config")
             \/ FindConfig \/ ReadConfig
    BY <1>2, <1>8 DEF vars, EditConfig, EditInstructions, EditSkill, Edit, StartTui, LoadCatalog,
                      FindConfig, ReadConfig
  <1>9. CASE \/ RunDocs("User", "user_docs", "project_docs")
             \/ RunDocs("Project", "project_docs", IF home THEN "user_skills" ELSE "project_skills")
             \/ RunSkills("User", "user_skills", "project_skills")
             \/ RunSkills("Project", "project_skills", "select")
             \/ Select
    <2>1. /\ "user_docs" # "asked" /\ "project_docs" # "asked" /\ "user_skills" # "asked"
          /\ "project_skills" # "asked" /\ "select" # "asked"
      OBVIOUS
    <2> QED BY <1>4, <1>9, <2>1 DEF RunDocs, RunSkills, Select
  <1> QED BY <1>5, <1>6, <1>7, <1>8, <1>9 DEF Next

\* The answers, with the types.
LEMMA DecisionAlways == Spec => [](TypeOK /\ DecisionInv)
  <1>1. Init => TypeOK /\ DecisionInv
    BY TypeInit, NothingAsked DEF Init, DecisionInv
  <1>2. TypeOK /\ DecisionInv /\ [Next]_vars => (TypeOK /\ DecisionInv)'
    BY TypeNext, DecisionNext
  <1> QED BY <1>1, <1>2, PTL DEF Spec

\* The first rule that says anything of a request decides, and one that cannot
\* be evaluated lets nothing through (decide_path_access, decide_http_request).
THEOREM FirstRulesDecide == Spec => []FirstRuleDecides
  <1>1. ASSUME TypeOK, DecisionInv PROVE FirstRuleDecides
    <2>1. run.policy \in RuntimePolicy
      BY <1>1 DEF TypeOK, Run
    <2>2. ASSUME decision.asked = "url"
          PROVE  decision.answer = "Allow" <=> HttpAllowed(run.policy, decision.of)
      BY <1>1, <2>1, <2>2, HttpDecision DEF DecisionInv
    <2>3. ASSUME decision.asked = "path", decision.answer = "Allow"
          PROVE  PathAllowed(run.policy, decision.of)
      <3>1. decision.of \in PathRequests /\ decision.of.path \in Workdir
        BY <1>1, <2>3, StartupAssumption DEF DecisionInv
      <3> QED BY <1>1, <2>1, <2>3, <3>1, AllowedPaths DEF DecisionInv
    <2> QED BY <2>2, <2>3 DEF FirstRuleDecides
  <1> QED BY <1>1, DecisionAlways, PTL

\* As long as all rules are about workdirs, a path that may be accessed leads
\* into one of them, however it is spelt (decide_path_access, normalize_path).
THEOREM WorkdirsAreNotLeft == Spec => []WorkdirRulesStayInside
  <1>1. ASSUME TypeOK, DecisionInv PROVE WorkdirRulesStayInside
    <2>1. SUFFICES ASSUME decision.asked = "path", decision.answer = "Allow",
                          \A r \in DOMAIN run.policy.rules : run.policy.rules[r].base = "workdir"
                   PROVE  LET workdirs == Range(run.policy.workdirs)
                              path == decision.of.path
                              targets == IF path.absolute THEN {path.parts}
                                         ELSE {w \o path.parts : w \in workdirs}
                          IN  \E target \in targets, w \in workdirs :
                                 IsPrefix(Location(w), Location(target))
      BY DEF WorkdirRulesStayInside
    <2>2. run.policy \in RuntimePolicy
      BY <1>1 DEF TypeOK, Run
    <2>3. decision.of.path \in Workdir
      BY <1>1, <2>1, StartupAssumption DEF DecisionInv
    <2>4. DecidePathAccess(run.policy, decision.of.path, decision.of.access) = "Allow"
      BY <1>1, <2>1 DEF DecisionInv
    <2> QED BY <2>1, <2>2, <2>3, <2>4, AllowedInside
  <1> QED BY <1>1, DecisionAlways, PTL

-----------------------------------------------------------------------------
(***************************************************************************)
(* The skills of a run.                                                    *)
(***************************************************************************)
\* What is on disk, and what a run has in its catalog, has been on disk since
\* the run was submitted; so has what was selected from that catalog.
SkillInv ==
    /\ run.pc # "none" => OnDisk(files) \subseteq seen
    /\ run.pc # "none" => \A name \in DOMAIN run.catalog :
           <<run.catalog[name].scope, name, run.catalog[name].content>> \in seen
    /\ RunHasItsSkills

\* There is no run at first.
LEMMA SkillInit == Init => SkillInv
  BY NoRunType DEF Init, SkillInv, RunHasItsSkills

\* What is added to the catalog is on disk, and the selection is complete.
LEMMA SkillNext == ASSUME TypeOK, SkillInv, [Next]_vars PROVE SkillInv'
  <1>1. run \in Run /\ files \in Files
    BY DEF TypeOK
  <1>2. ASSUME UNCHANGED <<run, files, seen>> PROVE SkillInv'
    BY <1>2 DEF SkillInv, RunHasItsSkills, OnDisk
  <1>3. ASSUME run' = NoRun PROVE SkillInv'
    BY <1>3, NoRunType DEF SkillInv, RunHasItsSkills
  \* The run goes on, with the catalog it has and nothing selected.
  <1>4. ASSUME run.pc # "none", UNCHANGED <<files, seen>>, run'.catalog = run.catalog,
               run'.pc \notin {"running", "asked"}
        PROVE  SkillInv'
    BY <1>4 DEF SkillInv, RunHasItsSkills, OnDisk
  <1>5. ASSUME NEW after, Edit(after) PROVE SkillInv'
    <2>1. UNCHANGED run /\ run.pc # "asked" /\ files' = after
          /\ seen' = IF run.pc = "none" THEN {} ELSE seen \union OnDisk(after)
      BY <1>5 DEF Edit
    <2>2. CASE run.pc = "none"
      BY <2>1, <2>2 DEF SkillInv, RunHasItsSkills
    <2>3. CASE run.pc # "none"
      <3>1. seen' = seen \union OnDisk(after) /\ OnDisk(files)' = OnDisk(after)
        BY <2>1, <2>3 DEF OnDisk
      <3>2. OnDisk(files)' \subseteq seen' /\ seen \subseteq seen'
        BY <3>1
      <3>3. \A name \in DOMAIN run.catalog :
               <<run.catalog[name].scope, name, run.catalog[name].content>> \in seen'
        BY <2>3, <3>2 DEF SkillInv
      <3>4. RunHasItsSkills'
        BY <2>1, <3>2 DEF SkillInv, RunHasItsSkills
      <3> QED BY <2>1, <3>2, <3>3, <3>4 DEF SkillInv, OnDisk
    <2> QED BY <2>2, <2>3
  <1>6. ASSUME NEW via, NEW names, NEW policy, Submit(via, names, policy) PROVE SkillInv'
    <2> DEFINE pc == IF home THEN "user_docs" ELSE "project_docs"
    <2>1. /\ run' = [NoRun EXCEPT !.pc = pc, !.via = via, !.names = names, !.policy = policy]
          /\ seen' = OnDisk(files) /\ UNCHANGED files
      BY <1>6 DEF Submit
    <2>2. pc \notin {"running", "asked"}
      OBVIOUS
    <2> HIDE DEF pc
    <2>3. run'.pc = pc /\ run'.catalog = NoRun.catalog
      BY <2>1, NoRunType DEF Run
    <2>4. DOMAIN NoRun.catalog = {}
      BY DEF NoRun, NoCatalog
    <2>5. OnDisk(files)' = OnDisk(files)
      BY <2>1 DEF OnDisk
    <2> QED BY <2>1, <2>2, <2>3, <2>4, <2>5 DEF SkillInv, RunHasItsSkills
  <1>7. ASSUME NEW scope, NEW pc, NEW next, pc # "none", next \notin {"running", "asked"},
               RunDocs(scope, pc, next)
        PROVE  SkillInv'
    <2>1. CASE run' = [run EXCEPT !.docs = Pushed(@, scope), !.pc = next]
      <3>1. run'.pc = next /\ run'.catalog = run.catalog
        BY <1>1, <2>1 DEF Run
      <3> QED BY <1>4, <1>7, <3>1 DEF RunDocs
    <2> QED BY <1>3, <1>7, <2>1 DEF RunDocs
  <1>8. ASSUME NEW scope \in Scopes, NEW pc, NEW next, pc # "none", next \notin {"running", "asked"},
               RunSkills(scope, pc, next)
        PROVE  SkillInv'
    <2> DEFINE both == Inserted(run.catalog, scope)
    <2>1. CASE run' = [run EXCEPT !.catalog = both, !.pc = next]
      <3>1. run'.pc = next /\ run'.catalog = both
        <4> HIDE DEF both
        <4> QED BY <1>1, <2>1 DEF Run
      <3>2. run.pc # "none" /\ UNCHANGED <<files, seen>>
        BY <1>8 DEF RunSkills
      <3>3. run.catalog \in Catalogs
        BY <1>1 DEF Run
      <3>4. \A name \in DOMAIN both :
                \/ name \in DOMAIN run.catalog /\ both[name] = run.catalog[name]
                \/ <<both[name].scope, name, both[name].content>> \in OnDisk(files)
        BY <1>1, <3>3, InsertedFacts
      <3> HIDE DEF both
      <3>5. \A name \in DOMAIN both : <<both[name].scope, name, both[name].content>> \in seen
        BY <3>2, <3>4 DEF SkillInv
      <3>6. OnDisk(files)' = OnDisk(files)
        BY <3>2 DEF OnDisk
      <3> QED BY <1>8, <3>1, <3>2, <3>5, <3>6 DEF SkillInv, RunHasItsSkills
    <2>2. CASE run' # [run EXCEPT !.catalog = both, !.pc = next]
      BY <1>3, <1>8, <2>2 DEF RunSkills
    <2> QED BY <2>1, <2>2
  <1>9. CASE Select
    <2> DEFINE skills == Selected(run.catalog, run.names)
    <2>1. CASE Range(run.names) \subseteq DOMAIN run.catalog
      <3>1. /\ run.pc = "select" /\ UNCHANGED <<files, seen>>
            /\ run' = [run EXCEPT !.pc = "running", !.skills = skills]
        BY <1>9, <2>1 DEF Select
      <3>2. run.names \in Seq(SkillNames)
        BY <1>1 DEF Run
      <3>3. Chosen(run.catalog, run.names, skills, Len(run.names))
        BY <3>2, SelectedFacts
      <3> HIDE DEF skills
      <3>4. run'.pc = "running" /\ run'.catalog = run.catalog /\ run'.skills = skills /\ run'.names = run.names
        BY <1>1, <3>1 DEF Run
      <3>5. Range(run.names) = {run.names[k] : k \in 1..Len(run.names)}
        BY <3>2, LenProperties DEF Range
      <3>6. /\ {skills[i].name : i \in DOMAIN skills} = Range(run.names)
            /\ \A i, j \in DOMAIN skills : skills[i].name = skills[j].name => i = j
        <4>1. \A i \in DOMAIN skills : skills[i].name \in Range(run.names)
          BY <3>3, <3>5 DEF Chosen
        <4>2. ASSUME NEW x \in Range(run.names) PROVE \E i \in DOMAIN skills : skills[i].name = x
          <5>1. PICK k \in 1..Len(run.names) : run.names[k] = x
            BY <3>5
          <5>2. PICK i \in DOMAIN skills : skills[i].name = run.names[k]
            BY <3>3 DEF Chosen
          <5> QED BY <5>1, <5>2
        <4>3. \A i, j \in DOMAIN skills : skills[i].name = skills[j].name => i = j
          BY <3>3 DEF Chosen
        <4> QED BY <4>1, <4>2, <4>3
      <3>7. ASSUME NEW i \in DOMAIN skills
            PROVE  <<skills[i].skill.scope, skills[i].name, skills[i].skill.content>> \in seen
        <4>1. skills[i] \in {[name |-> x, skill |-> run.catalog[x]] : x \in Range(run.names)}
          BY <3>3, LenProperties, ElementOfSeq DEF Chosen
        <4>2. PICK x \in Range(run.names) : skills[i] = [name |-> x, skill |-> run.catalog[x]]
          BY <4>1
        <4>3. skills[i].name = x /\ skills[i].skill = run.catalog[x] /\ x \in DOMAIN run.catalog
          BY <2>1, <4>2
        <4>4. <<run.catalog[x].scope, x, run.catalog[x].content>> \in seen
          BY <3>1, <4>3 DEF SkillInv
        <4> QED BY <4>3, <4>4
      <3>8. OnDisk(files)' = OnDisk(files)
        BY <3>1 DEF OnDisk
      <3>9. RunHasItsSkills'
        BY <3>1, <3>4, <3>6, <3>7 DEF RunHasItsSkills
      <3> QED BY <3>1, <3>4, <3>8, <3>9 DEF SkillInv
    <2>2. CASE ~(Range(run.names) \subseteq DOMAIN run.catalog)
      BY <1>3, <1>9, <2>2 DEF Select
    <2> QED BY <2>1, <2>2
  <1>10. CASE AskForPath \/ AskForUrl
    <2>1. run' = [run EXCEPT !.pc = "asked"] /\ run.pc = "running" /\ UNCHANGED <<files, seen>>
      BY <1>10 DEF AskForPath, AskForUrl
    <2>2. /\ run'.pc = "asked" /\ run'.catalog = run.catalog /\ run'.skills = run.skills
          /\ run'.names = run.names
      BY <1>1, <2>1 DEF Run
    <2>3. OnDisk(files)' = OnDisk(files)
      BY <2>1 DEF OnDisk
    <2>4. RunHasItsSkills'
      BY <2>1, <2>2 DEF SkillInv, RunHasItsSkills
    <2> QED BY <2>1, <2>2, <2>3, <2>4 DEF SkillInv
  <1>11. CASE FinishRun
    BY <1>3, <1>11 DEF FinishRun
  <1>12. CASE Quit
    <2>1. CASE run' = NoRun
      BY <1>3, <2>1
    <2>2. CASE run' # NoRun
      BY <1>2, <1>12, <2>2 DEF Quit
    <2> QED BY <2>1, <2>2
  <1>13. CASE \/ UNCHANGED vars \/ StartTui \/ LoadCatalog("User", "user_skills", "project_skills")
              \/ LoadCatalog("Project", "project_skills", "config")
              \/ FindConfig \/ ReadConfig
    BY <1>2, <1>13 DEF vars, StartTui, LoadCatalog, FindConfig, ReadConfig
  <1>14. CASE EditConfig \/ EditInstructions \/ EditSkill
    BY <1>5, <1>14 DEF EditConfig, EditInstructions, EditSkill
  <1>15. CASE SubmitInTui \/ SubmitByCommand
    BY <1>6, <1>15 DEF SubmitInTui, SubmitByCommand
  <1>16. CASE \/ RunDocs("User", "user_docs", "project_docs")
              \/ RunDocs("Project", "project_docs", IF home THEN "user_skills" ELSE "project_skills")
    <2>1. "user_docs" # "none" /\ "project_docs" # "none"
          /\ "project_docs" \notin {"running", "asked"}
          /\ (IF home THEN "user_skills" ELSE "project_skills") \notin {"running", "asked"}
      OBVIOUS
    <2> QED BY <1>7, <1>16, <2>1
  <1>17. CASE \/ RunSkills("User", "user_skills", "project_skills")
              \/ RunSkills("Project", "project_skills", "select")
    <2>1. /\ "user_skills" # "none" /\ "project_skills" # "none"
          /\ "project_skills" \notin {"running", "asked"} /\ "select" \notin {"running", "asked"}
          /\ "User" \in Scopes /\ "Project" \in Scopes
      BY DEF Scopes
    <2> QED BY <1>8, <1>17, <2>1
  <1> QED BY <1>9, <1>10, <1>11, <1>12, <1>13, <1>14, <1>15, <1>16, <1>17 DEF Next

\* A run has the skills that were asked for, all of them, each as it was on disk
\* at some time since the request (run_with_model, select_explicit_skills).
THEOREM RunsHaveTheirSkills == Spec => []RunHasItsSkills
  <1>1. Init => TypeOK /\ SkillInv
    BY TypeInit, SkillInit
  <1>2. TypeOK /\ SkillInv /\ [Next]_vars => (TypeOK /\ SkillInv)'
    BY TypeNext, SkillNext
  <1>3. SkillInv => RunHasItsSkills
    BY DEF SkillInv
  <1> QED BY <1>1, <1>2, <1>3, PTL DEF Spec

-----------------------------------------------------------------------------
(***************************************************************************)
(* Scopes.                                                                 *)
(***************************************************************************)
\* What the later scope has is what the merged catalog has.
LEMMA LaterScopeWins ==
    ASSUME NEW catalog \in Catalogs, NEW scope \in Scopes, files \in Files,
           NEW name \in DOMAIN Inserted(catalog, scope),
           Inserted(catalog, scope)[name].scope # scope
    PROVE  /\ name \in SkillNames
           /\ files.skills[scope][name] \in Skills \ Usable
  <1> DEFINE found == Discovered(scope)
  <1>1. DOMAIN found = {x \in SkillNames : files.skills[scope][x] \in Usable}
        /\ \A x \in DOMAIN found : found[x].scope = scope
    BY DEF Discovered
  <1>2. DOMAIN catalog \subseteq SkillNames
    BY DEF Catalogs
  <1> HIDE DEF found
  <1>3. /\ DOMAIN Inserted(catalog, scope) = DOMAIN catalog \union DOMAIN found
        /\ name \in DOMAIN found => Inserted(catalog, scope)[name] = found[name]
    BY DEF found, Inserted, Overlaid
  <1>4. name \in SkillNames /\ name \notin DOMAIN found
    BY <1>1, <1>2, <1>3
  <1>5. files.skills[scope][name] \in Skills
    BY <1>4 DEF Files
  <1> QED BY <1>1, <1>4, <1>5

\* A run has the user's skill only where the project had none.
LEMMA OverrideNext ==
    ASSUME TypeOK, SkillInv, ProjectOverridesUser, [Next]_vars
    PROVE  ProjectOverridesUser'
  <1>1. run \in Run /\ files \in Files
    BY DEF TypeOK
  <1>2. ASSUME run'.pc \notin {"select", "running"} PROVE ProjectOverridesUser'
    BY <1>2 DEF ProjectOverridesUser
  <1>3. ASSUME run' = NoRun PROVE ProjectOverridesUser'
    BY <1>2, <1>3 DEF NoRun
  \* The catalog is the same, and nothing that was seen is forgotten.
  <1>4. ASSUME run.pc \in {"select", "running"}, run'.catalog = run.catalog, seen \subseteq seen'
        PROVE  ProjectOverridesUser'
    BY <1>4 DEF ProjectOverridesUser
  <1>5. ASSUME UNCHANGED run, run.pc = "none" \/ seen \subseteq seen' PROVE ProjectOverridesUser'
    BY <1>2, <1>4, <1>5
  <1>6. CASE EditConfig \/ EditInstructions \/ EditSkill
    <2>1. UNCHANGED run /\ (run.pc = "none" \/ seen \subseteq seen')
      BY <1>6 DEF EditConfig, EditInstructions, EditSkill, Edit
    <2> QED BY <1>5, <2>1
  <1>7. CASE SubmitInTui \/ SubmitByCommand
    <2>1. ASSUME NEW via, NEW names, NEW policy, Submit(via, names, policy)
          PROVE  run'.pc \in {"user_docs", "project_docs"}
      BY <2>1 DEF Submit, NoRun
    <2> QED BY <1>2, <1>7, <2>1 DEF SubmitInTui, SubmitByCommand
  <1>8. CASE \/ RunDocs("User", "user_docs", "project_docs")
             \/ RunDocs("Project", "project_docs", IF home THEN "user_skills" ELSE "project_skills")
    <2>1. ASSUME NEW scope, NEW pc, NEW next, next \notin {"select", "running"},
                 RunDocs(scope, pc, next)
          PROVE  ProjectOverridesUser'
      <3>1. run' = NoRun \/ run'.pc = next
        BY <1>1, <2>1 DEF RunDocs, Run
      <3> QED BY <1>2, <1>3, <2>1, <3>1
    <2>2. /\ "project_docs" \notin {"select", "running"}
          /\ (IF home THEN "user_skills" ELSE "project_skills") \notin {"select", "running"}
      OBVIOUS
    <2> QED BY <1>8, <2>1, <2>2
  <1>9. CASE RunSkills("User", "user_skills", "project_skills")
    <2>1. run' = NoRun \/ run'.pc = "project_skills"
      BY <1>1, <1>9 DEF RunSkills, Run
    <2> QED BY <1>2, <1>3, <2>1
  <1>10. CASE RunSkills("Project", "project_skills", "select")
    <2> DEFINE both == Inserted(run.catalog, "Project")
    <2>1. CASE run' = [run EXCEPT !.catalog = both, !.pc = "select"]
      <3>1. run'.catalog = both
        <4> HIDE DEF both
        <4> QED BY <1>1, <2>1 DEF Run
      <3>2. run.pc # "none" /\ seen' = seen /\ run.catalog \in Catalogs /\ "Project" \in Scopes
        BY <1>1, <1>10 DEF RunSkills, Run, Scopes
      <3>3. ASSUME NEW name \in DOMAIN both, both[name].scope = "User"
            PROVE  \E skill \in Skills \ Usable : <<"Project", name, skill>> \in seen
        <4> DEFINE skill == files.skills["Project"][name]
        <4>1. name \in SkillNames /\ skill \in Skills \ Usable
          BY <1>1, <3>2, <3>3, LaterScopeWins
        <4>2. <<"Project", name, skill>> \in OnDisk(files)
          BY <3>2, <4>1 DEF OnDisk
        <4> QED BY <3>2, <4>1, <4>2 DEF SkillInv
      <3> HIDE DEF both
      <3> QED BY <3>1, <3>2, <3>3 DEF ProjectOverridesUser
    <2>2. CASE run' # [run EXCEPT !.catalog = both, !.pc = "select"]
      BY <1>3, <1>10, <2>2 DEF RunSkills
    <2> QED BY <2>1, <2>2
  <1>11. CASE Select
    <2> DEFINE skills == Selected(run.catalog, run.names)
    <2>1. /\ run.pc = "select" /\ seen' = seen
          /\ run' = NoRun \/ run' = [run EXCEPT !.pc = "running", !.skills = skills]
      BY <1>11 DEF Select
    <2> HIDE DEF skills
    <2>2. run' = NoRun \/ run'.catalog = run.catalog
      BY <1>1, <2>1 DEF Run
    <2> QED BY <1>3, <1>4, <2>1, <2>2
  <1>12. CASE AskForPath \/ AskForUrl
    <2>1. run'.pc = "asked"
      BY <1>1, <1>12 DEF AskForPath, AskForUrl, Run
    <2> QED BY <1>2, <2>1
  <1>13. CASE FinishRun \/ Quit
    <2>1. run' = NoRun \/ (UNCHANGED run /\ seen' = seen)
      BY <1>13 DEF FinishRun, Quit
    <2> QED BY <1>3, <1>5, <2>1
  <1>14. CASE \/ UNCHANGED vars \/ StartTui \/ LoadCatalog("User", "user_skills", "project_skills")
              \/ LoadCatalog("Project", "project_skills", "config")
              \/ FindConfig \/ ReadConfig
    <2>1. UNCHANGED run /\ seen' = seen
      BY <1>14 DEF vars, StartTui, LoadCatalog, FindConfig, ReadConfig
    <2> QED BY <1>5, <2>1
  <1> QED BY <1>6, <1>7, <1>8, <1>9, <1>10, <1>11, <1>12, <1>13, <1>14 DEF Next

\* A project's skill overrides the user's of the same name: where a run has the
\* user's, the project had none at some time since the request
\* (resolve_catalog, insert_skill).
THEOREM ProjectsOverrideUsers == Spec => []ProjectOverridesUser
  <1>1. Init => TypeOK /\ SkillInv /\ ProjectOverridesUser
    <2>1. Init => ProjectOverridesUser
      BY DEF Init, ProjectOverridesUser, NoRun
    <2> QED BY <2>1, TypeInit, SkillInit
  <1>2. TypeOK /\ SkillInv /\ ProjectOverridesUser /\ [Next]_vars
            => (TypeOK /\ SkillInv /\ ProjectOverridesUser)'
    BY TypeNext, SkillNext, OverrideNext
  <1> QED BY <1>1, <1>2, PTL DEF Spec
=============================================================================
