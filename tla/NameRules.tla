------------------------------ MODULE NameRules ------------------------------
(***************************************************************************)
(* The rules that name and ignore web requests (lib/metrics/normalizer.js, *)
(* normalizer/rule.js), those of the configuration and the API and those   *)
(* the server sends at each login, and the transactions that consult them  *)
(* when they start, when somebody asks for their name, and when they end   *)
(* (lib/transaction/index.js).                                             *)
(*                                                                         *)
(* A name is a sequence of its parts.  A rule is a record of what it       *)
(* matches, what it makes of it, and its flags.  Patterns are anchored, as *)
(* those in the documentation of the API are.                              *)
(***************************************************************************)
EXTENDS Integers, Sequences, FiniteSets

CONSTANTS
    Requests,
    Path,         \* the paths of requests
    Configured,   \* possible lists of rules in the configuration: [name, ignore]
    Simple,       \* the rules the application may add
    Sent,         \* possible replies of the server: [url, name], lists of rules
    MaxAdded, MaxLogins   \* bounds

VARIABLES
    user,       \* userNormalizer.rules
    url,        \* urlNormalizer.rules
    names,      \* transactionNameNormalizer.rules
    advanced,   \* rules whose pattern goes on where it last matched (lastIndex)
    tx          \* the transactions of the requests

VARIABLES     \* ghosts
    config, reverse, added, reply,   \* where the rules come from
    ruled,      \* the requests that a rule was meant to ignore
    disturbed,  \* those that another request or a rule of the user came between
    asked       \* those whose name was asked for before their end

ruleVars == <<user, url, names, config, reverse, added, reply>>
vars == <<ruleVars, advanced, tx, ruled, disturbed, asked>>

NoName == <<>>
Status == {"ok", "missing"}
NoTx == [phase |-> "none", path |-> NoName, ignore |-> FALSE, partial |-> NoName,
         force |-> FALSE, routed |-> FALSE, status |-> "none", name |-> NoName]

-----------------------------------------------------------------------------
(* Lists of rules *)

InList(rules) == {rules[i] : i \in DOMAIN rules}
Reversed(list) == [i \in 1..Len(list) |-> list[Len(list) + 1 - i]]

(* The rule at a place, or behind all others.                               *)
InsertAt(rules, place, rule) ==
    [i \in 1..(Len(rules) + 1) |-> IF i < place THEN rules[i]
                                   ELSE IF i = place THEN rule ELSE rules[i - 1]]
InsertBefore(rules, rule, later) ==
    InsertAt(rules, IF later = {} THEN Len(rules) + 1
                    ELSE CHOOSE i \in later : \A j \in later : i <= j, rule)

(* Mutant: of equal precedence, the later rule comes first. *)
InsertBeforeEqual(rules, rule, backwards) ==
    InsertBefore(rules, rule, {i \in DOMAIN rules : rules[i].precedence >= rule.precedence})

(* processNameRule: behind the rules of equal precedence, or before them if *)
(* the feature flag reverse_naming_rules is set.                            *)
Insert(rules, rule, backwards) ==
    InsertBefore(rules, rule,
                 {i \in DOMAIN rules : \/ rules[i].precedence > rule.precedence
                                       \/ backwards /\ rules[i].precedence = rule.precedence})

(* The rules at some places of a list, inserted one after the other.        *)
Inserted(list, places, backwards) ==
    LET rules[k \in 0..Len(list)] ==
            IF k = 0 THEN <<>>
            ELSE IF k \in places THEN Insert(rules[k - 1], list[k], backwards)
            ELSE rules[k - 1]
    IN  rules[Len(list)]

(* addSimple: to the head of the list. *)
AddSimple(rules, rule) == <<rule>> \o rules

(* loadFromConfig: names first, then what is ignored, each by addSimple.    *)
LoadFromConfig(c, backwards) ==
    Reversed(c.ignore) \o Inserted(c.name, DOMAIN c.name, backwards)

(* load: each rule once, in the order of precedence. *)
Firsts(list) == {i \in DOMAIN list : \A j \in 1..(i - 1) : list[j] # list[i]}
Load(list) == Inserted(list, Firsts(list), FALSE)

(* What is given as lists are lists of rules. *)
Lists == (UNION {{c.name, c.ignore} : c \in Configured}) \cup (UNION {{s.url, s.name} : s \in Sent})
Rule == Simple \cup UNION {InList(list) : list \in Lists}
RulesAreGiven ==
    /\ \A list \in Lists : list \in Seq(Rule)
    /\ \A r \in Rule : /\ r.precedence \in Int
                       /\ r.ignore \in BOOLEAN /\ r.terminal \in BOOLEAN /\ r.global \in BOOLEAN

Init ==
    /\ config \in Configured /\ reverse \in BOOLEAN
    /\ user = LoadFromConfig(config, reverse)
    /\ url = <<>> /\ names = <<>> /\ advanced = {}
    /\ added = <<>> /\ reply = <<>>
    /\ tx = [r \in Requests |-> NoTx]
    /\ ruled = {} /\ disturbed = {} /\ asked = {}

-----------------------------------------------------------------------------
(* Consulting the rules *)

(* normalize and NormalizerRule.apply.  An ignoring rule is asked without  *)
(* setting lastIndex back, which a global pattern keeps: it matches from   *)
(* there, or not at all and starts anew.                                   *)
Remembers(rule) == rule.ignore /\ rule.global

Applied(found, rule) ==
    LET keeps == Remembers(rule)
        hit == found.value \in rule.matches /\ (keeps => rule \notin found.advanced)
    IN  IF found.over THEN found
        ELSE [matched |-> found.matched \/ (hit /\ ~rule.ignore),
              ignore |-> found.ignore \/ (hit /\ rule.ignore),
              value |-> IF hit /\ ~rule.ignore THEN rule.to ELSE found.value,
              advanced |-> IF keeps /\ hit THEN found.advanced \cup {rule}
                           ELSE found.advanced \ {rule},
              over |-> hit /\ rule.terminal]

Normalize(rules, from, value) ==
    LET found[k \in 0..Len(rules)] ==
            IF k = 0 THEN [matched |-> FALSE, ignore |-> FALSE, value |-> value,
                           advanced |-> from, over |-> FALSE]
            ELSE Applied(found[k - 1], rules[k])
    IN  found[Len(rules)]

Normalized(name) == <<"NormalizedUri">> \o name
Backstop == Normalized(<<"*">>)

(* _runUserNamingRules: what they make of a path is given to the server's. *)
RunUserNamingRules(users, urls, from, path) ==
    LET mine == Normalize(users, from, path)
        theirs == Normalize(urls, mine.advanced, mine.value)
    IN  IF ~mine.matched THEN mine
        ELSE [theirs EXCEPT !.matched = TRUE, !.ignore = @ \/ mine.ignore,
                            !.value = Normalized(@)]

(* _partialNameFromUri, mine being what the rules of the user make of it. *)
PartialFrom(mine, urls, t) ==
    LET theirs == Normalize(urls, mine.advanced, t.path)
        routed == IF t.routed THEN <<"route">> ELSE t.partial
    IN  IF mine.matched THEN mine
        ELSE IF routed # NoName THEN [mine EXCEPT !.value = routed]
        ELSE IF t.status = "missing" THEN [mine EXCEPT !.value = <<"(not found)">>]
        ELSE [theirs EXCEPT !.ignore = @ \/ mine.ignore,
                            !.value = IF theirs.matched THEN Normalized(@) ELSE Backstop]
PartialNameFromUri(users, urls, from, t) ==
    PartialFrom(RunUserNamingRules(users, urls, from, t.path), urls, t)

(* getFullName of a transaction that has no name yet.  The name that it is *)
(* given by force is asked of the server's rules for names only.           *)
FullFrom(onNames, partial) ==
    LET full == Normalize(onNames, partial.advanced, partial.value)
    IN  [ignore |-> partial.ignore \/ full.ignore, partial |-> partial.value,
         name |-> full.value, advanced |-> full.advanced]
FullName(users, urls, onNames, from, t) ==
    FullFrom(onNames, IF t.force
                      THEN [matched |-> TRUE, ignore |-> FALSE, value |-> <<"custom">>,
                            advanced |-> from, over |-> TRUE]
                      ELSE PartialNameFromUri(users, urls, from, t))

-----------------------------------------------------------------------------
(* What the rules mean: the newest rule of the API comes first, then those *)
(* of the configuration, what is ignored before names, each list as it is  *)
(* written; and no rule remembers what it has been asked.                  *)
ByPrecedence(list, places, backwards) ==
    LET Before(i, j) == \/ list[i].precedence < list[j].precedence
                        \/ list[i].precedence = list[j].precedence
                              /\ IF backwards THEN i > j ELSE i < j
        Behind(i, count) == Cardinality({j \in places : Before(j, i)}) = count
    IN  [k \in 1..Cardinality(places) |-> list[CHOOSE i \in places : Behind(i, k - 1)]]

UserMeant == Reversed(added) \o Reversed(config.ignore)
                 \o ByPrecedence(config.name, DOMAIN config.name, reverse)

Sorted(list) == ByPrecedence(list, Firsts(list), FALSE)
UrlMeant == IF reply = <<>> THEN <<>> ELSE Sorted(reply[Len(reply)].url)
NamesMeant == IF reply = <<>> THEN <<>> ELSE Sorted(reply[Len(reply)].name)

Fresh == {}   \* no pattern has been advanced
MeantAtStart(path) == RunUserNamingRules(UserMeant, UrlMeant, Fresh, path)
Meant(t) == FullName(UserMeant, UrlMeant, NamesMeant, Fresh, t)

-----------------------------------------------------------------------------
(* The application and the server give rules. *)

Open == {r \in Requests : tx[r].phase = "open"}

(* addNamingRule, addIgnoringRule *)
AddRule(rule) ==
    /\ Len(added) < MaxAdded /\ rule \notin InList(added)
    /\ added' = Append(added, rule)
    /\ user' = AddSimple(user, rule)
    /\ advanced' = advanced \ {rule}
    /\ disturbed' = disturbed \cup Open
    /\ UNCHANGED <<url, names, config, reverse, reply, tx, ruled, asked>>

(* A login: url_rules and transaction_name_rules. *)
Login(lists) ==
    /\ Len(reply) < MaxLogins
    /\ reply' = Append(reply, lists)
    /\ url' = Load(lists.url) /\ names' = Load(lists.name)
    /\ advanced' = advanced \cap InList(user)
    /\ UNCHANGED <<user, config, reverse, added, tx, ruled, disturbed, asked>>

-----------------------------------------------------------------------------
(* Transactions *)

(* The rules are consulted for one while others are under way. *)
Meets(r) ==
    disturbed' = IF Open \subseteq {r} THEN disturbed ELSE disturbed \cup Open \cup {r}

(* A request comes in: applyUserNamingRules. *)
StartRequest(r, path) ==
    LET mine == RunUserNamingRules(user, url, advanced, path)
    IN  /\ tx[r].phase = "none"
        /\ tx' = [tx EXCEPT ![r] =
               [NoTx EXCEPT !.phase = "open", !.path = path, !.ignore = mine.ignore,
                            !.partial = IF mine.matched THEN mine.value ELSE NoName]]
        /\ advanced' = mine.advanced
        /\ ruled' = IF MeantAtStart(path).ignore THEN ruled \cup {r} ELSE ruled
        /\ Meets(r)
        /\ UNCHANGED <<ruleVars, asked>>

(* A framework writes the path of a layer into the name state, or takes it *)
(* back; the API names the transaction.                                    *)
ChangeRoute(r) ==
    /\ tx[r].phase = "open"
    /\ tx' = [tx EXCEPT ![r].routed = ~@]
    /\ UNCHANGED <<ruleVars, advanced, ruled, disturbed, asked>>

SetTransactionName(r) ==
    /\ tx[r].phase = "open" /\ ~tx[r].force
    /\ tx' = [tx EXCEPT ![r].force = TRUE]
    /\ UNCHANGED <<ruleVars, advanced, ruled, disturbed, asked>>

(* Somebody asks for the name of a transaction under way (getFullName): the *)
(* browser's header, the headers of a response.                             *)
Ask(r) ==
    LET full == FullName(user, url, names, advanced, tx[r])
    IN  /\ tx[r].phase = "open"
        /\ tx' = [tx EXCEPT ![r].ignore = @ \/ full.ignore, ![r].partial = full.partial]
        /\ advanced' = full.advanced
        /\ asked' = asked \cup {r}
        /\ ruled' = IF Meant(tx[r]).ignore THEN ruled \cup {r} ELSE ruled
        /\ Meets(r)
        /\ UNCHANGED ruleVars

(* The response is over: finalizeNameFromUri.  What is left of the request *)
(* is its name and whether it is ignored.                                  *)
End(r, status) ==
    LET full == FullName(user, url, names, advanced, [tx[r] EXCEPT !.status = status])
    IN  /\ tx[r].phase = "open"
        /\ tx' = [tx EXCEPT ![r] =
               [NoTx EXCEPT !.phase = "ended", !.ignore = tx[r].ignore \/ full.ignore,
                            !.name = full.name]]
        /\ advanced' = full.advanced
        /\ ruled' = ruled \ {r} /\ disturbed' = disturbed \ {r} /\ asked' = asked \ {r}
        /\ UNCHANGED ruleVars

Next ==
    \/ \E rule \in Simple : AddRule(rule)
    \/ \E lists \in Sent : Login(lists)
    \/ \E r \in Requests : \/ \E path \in Path : StartRequest(r, path)
                          \/ ChangeRoute(r) \/ SetTransactionName(r) \/ Ask(r)
                          \/ \E status \in Status : End(r, status)

Spec == Init /\ [][Next]_vars

-----------------------------------------------------------------------------
(* Properties *)

(* Something names the transaction before its status or its path do. *)
Named(t) ==
    t.force \/ t.routed \/ RunUserNamingRules(UserMeant, UrlMeant, Fresh, t.path).matched

(* The server has sent no rule that is asked once in a request and         *)
(* remembers.                                                               *)
NoneRemembers ==
    \A i \in DOMAIN reply : \A rule \in InList(reply[i].url) \cup InList(reply[i].name) :
        ~Remembers(rule)

(* However rules are added, sent again and consulted in between: a request *)
(* that nothing comes between, and that is not named by force, is ignored  *)
(* when it is over exactly if some rule was meant to ignore it when it was *)
(* asked.  Rules of the user may remember what they were asked, because a  *)
(* request asks them twice; those of the server may not.  And one that is  *)
(* not to be ignored leaves with the name that the rules, as they are      *)
(* meant, make of it, unless somebody has asked for its name when nothing  *)
(* had named it.                                                           *)
NamedAsRuled ==
    [][tx' # tx =>
       \A r \in Requests, status \in Status :
          LET meant == Meant([tx[r] EXCEPT !.status = status])
              named == Meant([tx[r] EXCEPT !.status = status, !.partial = NoName]).name
              ignored == r \in ruled \/ meant.ignore
          IN  End(r, status) =>
                 /\ r \notin disturbed /\ ~tx[r].force /\ NoneRemembers =>
                       (tx'[r].ignore <=> ignored)
                 /\ ~ignored /\ (r \notin asked \/ Named(tx[r])) => tx'[r].name = named]_vars
=============================================================================
