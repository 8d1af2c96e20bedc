------------------------------- MODULE Router -------------------------------
(***************************************************************************)
(* Which tunnel carries a connection: the rules of route/rule.rs and of    *)
(* route/config, the router that sorts them into groups and matches a      *)
(* destination against them (route/router.rs), and select_tunnel of        *)
(* in/tunnel_manager.rs, which turns the labels into a tunnel.             *)
(*                                                                         *)
(* Registration and removal are single steps here: the locks and tasks     *)
(* around them are the subject of TunnelManager.  A domain is the sequence *)
(* of its labels, an address and a region are names.                       *)
(***************************************************************************)
EXTENDS Integers, SequencesExt

CONSTANTS
  Outs,          \* OUT ids, which are labels too
  Tunnels,
  OutOf,         \* the OUT of a tunnel
  Priority,      \* of a tunnel, lower is preferred
  TunnelLabels,  \* configured labels of a tunnel
  OutRuleConfigs,    \* the rules an OUT sends with each match: a sequence
  OutRoutingPriority,
  InRuleConfigs,     \* the lists of IN rules that are tried, sequences too
  Requests,      \* [ip, port, domain, regions]; None is an unknown one
  DIRECT, PROXY, ANY,      \* BuiltInLabel
  MinPriority, MaxPriority, \* i64::MIN, i64::MAX
  None

Priorities == MinPriority .. MaxPriority

(* What every configured rule has; the rest depends on its kind. *)
IsRuleConfig(config) ==
  /\ {"kind", "labels", "priority", "tag"} \subseteq DOMAIN config
  /\ config.labels \in Seq(Range(config.labels))
  /\ config.priority # None => config.priority \in Priorities

IsRuleConfigs(configs) ==
  /\ configs \in Seq(Range(configs))
  /\ \A n \in DOMAIN configs : IsRuleConfig(configs[n])

ASSUME RouterAssumption ==
  /\ OutOf \in [Tunnels -> Outs]
  /\ Priority \in [Tunnels -> Int]
  /\ MinPriority \in Int /\ MaxPriority \in Int /\ MinPriority < MaxPriority
  /\ OutRoutingPriority \in [Outs -> Priorities]
  /\ \A configs \in InRuleConfigs : IsRuleConfigs(configs)
  /\ \A o \in Outs : IsRuleConfigs(OutRuleConfigs[o])
  /\ \A r \in Requests : DOMAIN r = {"ip", "port", "domain", "regions"}

(* The names stand for different things. *)
ASSUME NamesAssumption ==
  /\ Outs \cap {DIRECT, PROXY, ANY, None} = {}
  /\ DIRECT # PROXY /\ DIRECT # ANY /\ PROXY # ANY
  /\ None \notin Tunnels /\ None # DIRECT

VARIABLES
  in_rules,
  tunnel_map,            \* tunnels registered, each under its OUT
  label_to_tunnels_map,  \* for each label, tunnels sorted by priority
  rules_groups_cache,
  rebuilt                \* history: update_rules_cache has run

vars == <<in_rules, tunnel_map, label_to_tunnels_map, rules_groups_cache,
          rebuilt>>

Labels == Outs \cup {PROXY} \cup UNION {TunnelLabels[t] : t \in Tunnels}

-----------------------------------------------------------------------------
(* Sequences. *)

(* The elements of s at some positions, in their order. *)
Keep(s, positions) ==
  FlattenSeq([n \in DOMAIN s |-> IF n \in positions THEN <<s[n]>> ELSE <<>>])

Within(s, T) == Keep(s, {n \in DOMAIN s : s[n] \in T})

Unique(s) == Keep(s, {n \in DOMAIN s : \A m \in 1 .. n - 1 : s[m] # s[n]})

-----------------------------------------------------------------------------
(* From a configuration to a rule. *)

PriorityIn(config, default) ==
  IF config.kind = "fallback" THEN MaxPriority
  ELSE IF config.priority = None THEN default ELSE config.priority

InRule(config) ==
  [config EXCEPT !.priority = PriorityIn(config, MinPriority)]

OutRule(config, out) ==
  [config EXCEPT !.labels = <<out>>,
                 !.priority = PriorityIn(config, OutRoutingPriority[out])]

InRules(configs) == [n \in DOMAIN configs |-> InRule(configs[n])]
OutRules(out) ==
  [n \in DOMAIN OutRuleConfigs[out] |-> OutRule(OutRuleConfigs[out][n], out)]

-----------------------------------------------------------------------------
(* Rule::match. *)

Known(rule, request) ==
  /\ rule.kind = "geoip" => request.regions # None
  /\ rule.kind \in {"domain", "domain_pattern"} => request.domain # None

Condition(rule, request) ==
  CASE rule.kind = "geoip" -> rule.matches \cap request.regions # {}
    [] rule.kind = "address" ->
         /\ rule.matches = None \/ request.ip \in rule.matches
         /\ rule.ports = None \/ request.port \in rule.ports
    [] rule.kind = "domain" ->
         \E d \in rule.matches : IsSuffix(d, request.domain)
    [] rule.kind = "domain_pattern" -> request.domain \in rule.matches

(* A negated rule does not match what is not known either. *)
PlainMatches(rule, request) ==
  Known(rule, request) /\ Condition(rule, request) # rule.negate

(* Mutant: negation applied to an unknown domain or region, too. *)
RuleMatchesUnknown(rule, request, any_matched) ==
  IF rule.kind = "fallback" THEN ~ any_matched
  ELSE (Known(rule, request) /\ Condition(rule, request)) # rule.negate

RuleMatches(rule, request, any_matched) ==
  IF rule.kind = "fallback" THEN ~ any_matched
  ELSE PlainMatches(rule, request)

-----------------------------------------------------------------------------
(* Router::match: labels with their tags, in groups. *)

Tagged(rule) ==
  [n \in DOMAIN rule.labels |-> [label |-> rule.labels[n], tag |-> rule.tag]]

GroupLabels(rules, request, already_matched) ==
  LET labels[n \in 0 .. Len(rules)] ==
        IF n = 0 THEN <<>>
        ELSE LET before == labels[n - 1] IN
             IF RuleMatches(rules[n], request,
                            already_matched \/ before # <<>>)
             THEN before \o Tagged(rules[n]) ELSE before
  IN labels[Len(rules)]

Match(request) ==
  LET labels_groups[n \in 0 .. Len(rules_groups_cache)] ==
        IF n = 0 THEN <<>>
        ELSE LET before == labels_groups[n - 1]
                 labels == GroupLabels(rules_groups_cache[n], request,
                                       before # <<>>)
             IN IF labels = <<>> THEN before ELSE Append(before, labels)
  IN Unique(labels_groups[Len(rules_groups_cache)])

-----------------------------------------------------------------------------
(* update_rules_cache, update_label_to_tunnels_map. *)

Ascending(numbers) ==
  CHOOSE s \in SetToSeqs(numbers) :
    \A m, n \in DOMAIN s : m < n => s[m] < s[n]

(* A stable sort by priority, cut where the priority changes. *)
Groups(rules) ==
  LET order == Ascending({rules[n].priority : n \in DOMAIN rules})
  IN [g \in DOMAIN order |->
        Keep(rules, {n \in DOMAIN rules : rules[n].priority = order[g]})]

(* Mutant: the OUTs as they were before the change. *)
StaleOuts(tunnels) == {OutOf[t] : t \in tunnel_map}

RegisteredOuts(tunnels) == {OutOf[t] : t \in tunnels}

(* IN rules first, then the OUTs' in the HashMap's order. *)
RulesInForce(outs) ==
  in_rules \o FlattenSeq([n \in DOMAIN outs |-> OutRules(outs[n])])

LabelsOf(t) == TunnelLabels[t] \cup {PROXY, OutOf[t]}

(* Mutant: no sort by priority. *)
AnyOrder(s) == TRUE

SortedByPriority(s) ==
  \A m, n \in DOMAIN s : m < n => Priority[s[m]] <= Priority[s[n]]

(* The maps are cleared and filled again from the tunnels; ties keep the   *)
(* order of the HashMap.                                                   *)
Rebuild(tunnels) ==
  /\ tunnel_map' = tunnels
  /\ \E s \in {s \in SetToSeqs(tunnels) : SortedByPriority(s)} :
       label_to_tunnels_map' =
         [l \in Labels |-> Within(s, {t \in tunnels : l \in LabelsOf(t)})]
  /\ \E outs \in SetToSeqs(RegisteredOuts(tunnels)) :
       rules_groups_cache' = Groups(RulesInForce(outs))
  /\ rebuilt' = TRUE
  /\ UNCHANGED in_rules

RegisterTunnel(t) == t \notin tunnel_map /\ Rebuild(tunnel_map \cup {t})
UnregisterTunnel(t) == t \in tunnel_map /\ Rebuild(tunnel_map \ {t})

(* Router::new: the rules are one group, in the order of the file. *)
Init ==
  /\ \E configs \in InRuleConfigs : in_rules = InRules(configs)
  /\ rules_groups_cache = <<in_rules>>
  /\ tunnel_map = {}
  /\ label_to_tunnels_map = [l \in Labels |-> <<>>]
  /\ rebuilt = FALSE

Next == \E t \in Tunnels : RegisterTunnel(t) \/ UnregisterTunnel(t)

Spec == Init /\ [][Next]_vars

-----------------------------------------------------------------------------
(* select_tunnel: `active` are the tunnels whose is_active() holds at the  *)
(* moment, `index` is the value of select_index.                           *)


(* Those before the first of another priority than the head's. *)
TopOf(tunnels) ==
  Keep(tunnels, {n \in DOMAIN tunnels :
                   \A m \in 1 .. n : Priority[tunnels[m]] = Priority[tunnels[1]]})

InTurn(tunnels, index) ==
  IF tunnels = <<>> THEN None
  ELSE LET top == TopOf(tunnels) IN top[(index % Len(top)) + 1]

(* Mutant: is_active is not asked. *)
SelectFromAll(label, active, index) ==
  InTurn(label_to_tunnels_map[label], index)

SelectFromTunnels(label, active, index) ==
  InTurn(Within(label_to_tunnels_map[label], active), index)

IsCustom(label) == label \notin {DIRECT, PROXY, ANY}
HasTunnel(label, active) ==
  label \in Labels /\ SelectFromTunnels(label, active, 0) # None
Selected(tunnel, tag) == [tunnel |-> tunnel, tag |-> tag]
Nothing == Selected(None, None)

(* One group: the first DIRECT, or label with a usable tunnel, decides;    *)
(* else PROXY or ANY take any usable tunnel, with the first of their tags. *)
SelectInGroup(labels, active, index) ==
  LET deciding == {n \in DOMAIN labels :
                     \/ labels[n].label = DIRECT
                     \/ /\ IsCustom(labels[n].label)
                        /\ HasTunnel(labels[n].label, active)}
      proxying == {n \in DOMAIN labels : labels[n].label \in {PROXY, ANY}}
  IN IF deciding # {}
     THEN LET first == labels[Min(deciding)] IN
          Selected(IF first.label = DIRECT THEN DIRECT
                   ELSE SelectFromTunnels(first.label, active, index),
                   first.tag)
     ELSE IF proxying # {} /\ HasTunnel(PROXY, active)
     THEN Selected(SelectFromTunnels(PROXY, active, index),
                   labels[Min(proxying)].tag)
     ELSE Nothing

(* The first group with an answer; when there is none and ANY was among    *)
(* the labels, the direct tunnel with the tag of the last ANY.             *)
SelectTunnel(groups, active, index) ==
  LET all == FlattenSeq(groups)
      answering ==
        {g \in DOMAIN groups :
           SelectInGroup(groups[g], active, index).tunnel # None}
      any == {n \in DOMAIN all : all[n].label = ANY}
  IN IF answering # {}
     THEN SelectInGroup(groups[Min(answering)], active, index)
     ELSE IF any # {} THEN Selected(DIRECT, all[Max(any)].tag)
     ELSE Nothing

-----------------------------------------------------------------------------
(* What the rules say, without groups or folds. *)

RuleSet ==
  {in_rules[n] : n \in DOMAIN in_rules} \cup
  UNION {{OutRules(o)[n] : n \in DOMAIN OutRules(o)} :
           o \in RegisteredOuts(tunnel_map)}

IsFallback(rule) == rule.kind = "fallback"
Plain(request) ==
  {r \in RuleSet : /\ ~ IsFallback(r) /\ r.labels # <<>>
                   /\ PlainMatches(r, request)}
Effective(request) ==
  IF Plain(request) # {} THEN Plain(request)
  ELSE {r \in RuleSet : IsFallback(r) /\ r.labels # <<>>}

LabelSet(rule) == {rule.labels[n] : n \in DOMAIN rule.labels}
GroupSet(labels) == {labels[n] : n \in DOMAIN labels}
Pairs(rules) ==
  UNION {{[label |-> l, tag |-> r.tag] : l \in LabelSet(r)} : r \in rules}

(* Fallback rules come last: before the cache is rebuilt, if they do in    *)
(* the list; then, if none of the others has a fallback's priority.        *)
InOrder ==
  IF rebuilt
  THEN \A r, f \in RuleSet :
         IsFallback(f) /\ r.priority = f.priority => IsFallback(r)
  ELSE \A m, n \in DOMAIN in_rules :
         m < n /\ IsFallback(in_rules[m]) => IsFallback(in_rules[n])

-----------------------------------------------------------------------------
(* Properties. *)

TypeOK ==
  /\ tunnel_map \in SUBSET Tunnels
  /\ label_to_tunnels_map \in [Labels -> Seq(Tunnels)]
  /\ \A g \in DOMAIN rules_groups_cache :
       \A n \in DOMAIN rules_groups_cache[g] :
         rules_groups_cache[g][n] \in RuleSet
  /\ rebuilt \in BOOLEAN

(* The cache is the rules in force: matching a destination yields the      *)
(* labels of every rule that applies and of no other, a fallback rule's    *)
(* only when no other rule applies, and once the cache has been built each *)
(* priority's labels are together and in the order of priorities.          *)
MatchFollowsRules ==
  InOrder => \A request \in Requests :
    LET groups == Match(request)
        levels == {r.priority : r \in Effective(request)}
        AtLevel(p) == Pairs({r \in Effective(request) : r.priority = p})
        First(p) == \A q \in levels : q < p => AtLevel(q) # AtLevel(p)
        Position(p) ==
          Min({g \in DOMAIN groups : GroupSet(groups[g]) = AtLevel(p)})
    IN IF \E r \in Effective(request) : IsFallback(r)
       THEN \E r \in Effective(request) : groups = <<Tagged(r)>>
       ELSE /\ UNION {GroupSet(groups[g]) : g \in DOMAIN groups} =
                 Pairs(Effective(request))
            /\ rebuilt => \A p, q \in {l \in levels : First(l)} :
                            p < q => Position(p) < Position(q)

(* A label that can be served now. *)
Serves(label, active) ==
  \/ label = DIRECT
  \/ label \in {PROXY, ANY} /\ active # {}
  \/ IsCustom(label) /\ \E t \in active : label \in LabelsOf(t)

(* What select_tunnel makes of a match is what the rules ask for: the      *)
(* connection takes the most urgent priority that can be served at all,    *)
(* there DIRECT or a named label wins over PROXY, and the tag is that of a *)
(* rule with this label; it goes direct without a DIRECT rule only when    *)
(* ANY allows it and no tunnel can be had, and it is rejected only when no *)
(* rule that applies can be served.  Before the first tunnel registers,    *)
(* the priorities are not looked at.                                       *)
SelectionFollowsRules ==
  InOrder => \A request \in Requests, active \in SUBSET tunnel_map :
   \A index \in 0 .. 1 :
    LET groups == Match(request)
        rules == {r \in Effective(request) :
                    IsFallback(r) => groups = <<Tagged(r)>>}
        served == {r \in rules : \E l \in LabelSet(r) : Serves(l, active)}
        best == {r \in served :
                   rebuilt => \A s \in served : r.priority <= s.priority}
        named == {p \in Pairs(best) : /\ p.label \notin {PROXY, ANY}
                                      /\ Serves(p.label, active)}
        anyone == {p \in Pairs(best) : p.label \in {PROXY, ANY}}
        direct == {p \in Pairs(rules) : p.label = ANY}
        selected == SelectTunnel(groups, active, index)
    IN IF named # {}
       THEN \E p \in named :
              /\ selected.tag = p.tag
              /\ IF p.label = DIRECT THEN selected.tunnel = DIRECT
                 ELSE /\ selected.tunnel \in active
                      /\ p.label \in LabelsOf(selected.tunnel)
       ELSE IF served # {}
       THEN \E p \in anyone : /\ selected.tag = p.tag
                               /\ selected.tunnel \in active
       ELSE IF direct # {}
       THEN \E p \in direct : selected = Selected(DIRECT, p.tag)
       ELSE selected = Nothing

(* For every label, successive values of select_index reach exactly the    *)
(* active tunnels of the best priority, each of them.                      *)
TopTunnelsTakeTurns ==
  \A label \in Labels, active \in SUBSET tunnel_map :
    LET carrying == {t \in active : label \in LabelsOf(t)}
    IN {SelectFromTunnels(label, active, n) : n \in 0 .. Cardinality(tunnel_map)}
         = IF carrying = {} THEN {None}
           ELSE {t \in carrying :
                   \A s \in carrying : Priority[t] <= Priority[s]}
=============================================================================
