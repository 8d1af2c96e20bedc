------------------------------ MODULE MCRouter ------------------------------
(* A small instance of Router: two OUTs, one of them with a tunnel of each *)
(* priority, and all lists of up to three IN rules from a pool.            *)
EXTENDS Router

CONSTANTS us, eu, t1, t2, t3, label, com, example, cn, ip1, ip2, web, warp

LowestPriority == -100

Rule(kind, matches, negate, labels, priority, tag) ==
  [kind |-> kind, matches |-> matches, ports |-> None, negate |-> negate,
   labels |-> labels, priority |-> priority, tag |-> tag]

OutOfTunnel == t1 :> us @@ t2 :> us @@ t3 :> eu
PriorityOfTunnel == t1 :> 1 @@ t2 :> 2 @@ t3 :> 1
LabelsOfTunnel == t1 :> {label} @@ t2 :> {label} @@ t3 :> {}

Chinese == Rule("geoip", {cn}, FALSE, <<DIRECT>>, None, None)
Foreign == Rule("geoip", {cn}, TRUE, <<PROXY>>, 1, None)
Named == Rule("domain", {<<example, com>>}, FALSE, <<label>>, None, warp)
Pattern == Rule("domain_pattern", {<<com>>}, FALSE, <<label, ANY>>, 0, None)
Ported == [Rule("address", None, TRUE, <<ANY>>, 2, None)
             EXCEPT !.ports = {web}]
Fallback == Rule("fallback", {}, FALSE, <<PROXY>>, None, None)
LastResort == Rule("fallback", {}, FALSE, <<ANY>>, None, warp)

(* A plain rule with the priority of a fallback. *)
Latest == Rule("address", {ip2}, FALSE, <<label>>, MaxPriority, None)

Pool ==
  {Chinese, Foreign, Named, Pattern, Ported, Fallback, LastResort, Latest}
ListsOfThree ==
  {list \in UNION {[1 .. n -> Pool] : n \in 0 .. 3} :
     \A m, n \in DOMAIN list : m # n => list[m] # list[n]}

RulesOfOut ==
  us :> <<Rule("domain", {<<com>>}, FALSE, <<>>, None, None)>> @@
  eu :> <<Rule("address", {ip1}, FALSE, <<>>, 1, None),
          Rule("fallback", {}, FALSE, <<>>, None, None)>>
RoutingPriority == us :> 0 @@ eu :> 0

AllRequests ==
  [ip : {ip1, ip2}, port : {web, 0}, domain : {None, <<example, com>>, <<com>>},
   regions : {None, {}, {cn}}]
=============================================================================
