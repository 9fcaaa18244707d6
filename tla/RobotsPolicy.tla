---------------------------- MODULE RobotsPolicy ----------------------------
(***************************************************************************)
(* What a robots.txt permits: the parser discovery and crawling share      *)
(* (discovery/domain/robots_parser.py), the pass over the same text that   *)
(* finds the crawl delays, and the evaluation of one path                  *)
(* (crawling/domain/robots_policy.py).                                     *)
(*                                                                         *)
(* A file is a sequence of lines, a line a directive and a value; a path   *)
(* and a rule are sequences of segments.                                   *)
(***************************************************************************)
EXTENDS Integers, Sequences, FiniteSets, SequencesExt

CONSTANTS
  UserAgent,  \* the name the crawler gives, all of it
  NoDelay     \* no crawl delay

Anyone == "*"

IsRule(line) == line.directive \in {"allow", "disallow"}
IsAgent(line) == line.directive = "user-agent"

\* The lines of a robots.txt; a Crawl-delay that is no number is left out of them.
IsText(lines) ==
  /\ lines \in Seq(ToSet(lines))
  /\ \A i \in DOMAIN lines :
       /\ IsRule(lines[i]) => lines[i].value \in Seq(STRING)
       /\ lines[i].directive = "crawl-delay" => lines[i].value \in Int

-----------------------------------------------------------------------------
\* parse_robots_txt: rules join the group of the agents named before them, and
\* an agent begins a group when the current one has rules. Other lines, also
\* Crawl-delay, do not end the list of agents.
NewGroup == [agents |-> {}, allow |-> {}, disallow |-> {}]

AGroupEach(groups, agent) == Append(groups, [NewGroup EXCEPT !.agents = {agent}])  \* mutant
AddAgent(groups, agent) ==
  IF groups = <<>> \/ Last(groups).allow \cup Last(groups).disallow # {}
  THEN Append(groups, [NewGroup EXCEPT !.agents = {agent}])
  ELSE [groups EXCEPT ![Len(groups)].agents = @ \cup {agent}]

AddRule(groups, line) ==
  LET open == IF groups = <<>> THEN <<NewGroup>> ELSE groups
  IN IF line.directive = "allow"
     THEN [open EXCEPT ![Len(open)].allow = @ \cup {line.value}]
     ELSE [open EXCEPT ![Len(open)].disallow = @ \cup {line.value}]

ParseLine(groups, line) ==
  IF IsAgent(line) THEN AddAgent(groups, line.value)
  ELSE IF IsRule(line) THEN AddRule(groups, line) ELSE groups

RuleGroups(lines) ==
  LET after[n \in 0..Len(lines)] == IF n = 0 THEN <<>> ELSE ParseLine(after[n - 1], lines[n])
  IN after[Len(lines)]

\* extract_crawl_delays: here any line that is not an agent ends the list of agents.
\* An agent named twice keeps the delay it got last.
Given(delays, agents, delay) ==
  [a \in agents \cup DOMAIN delays |-> IF a \in agents THEN delay ELSE delays[a]]
DelayStep(acc, line) ==
  CASE IsAgent(line) ->
         [acc EXCEPT !.agents = (IF acc.open THEN @ ELSE {}) \cup {line.value}, !.open = TRUE]
    [] line.directive = "crawl-delay" ->
         [acc EXCEPT !.delays = Given(@, acc.agents, line.value), !.open = FALSE]
    [] OTHER -> [acc EXCEPT !.open = FALSE]

NoDelays == [delays |-> <<>>, agents |-> {}, open |-> FALSE]
CrawlDelays(lines) ==
  LET after[n \in 0..Len(lines)] == IF n = 0 THEN NoDelays ELSE DelayStep(after[n - 1], lines[n])
  IN after[Len(lines)].delays

MatchedDelay(delays) ==
  IF UserAgent \in DOMAIN delays THEN delays[UserAgent]
  ELSE IF Anyone \in DOMAIN delays THEN delays[Anyone] ELSE NoDelay

-----------------------------------------------------------------------------
\* The groups that name the crawler, or else those for anyone.
MatchingGroups(groups) ==
  LET exact == {g \in ToSet(groups) : UserAgent \in g.agents}
  IN IF exact # {} THEN exact ELSE {g \in ToSet(groups) : Anyone \in g.agents}

\* An empty rule matches nothing.
Matching(patterns, path) == {p \in patterns : p # <<>> /\ IsPrefix(p, path)}
LongestOf(patterns) == IF patterns = {} THEN 0 ELSE Max({Len(p) : p \in patterns})

\* _best_matching_groups and evaluate_robots_policy: the longest rule wins, an
\* equally long allow over a disallow.
Outcome(groups, path) ==
  LET matching == MatchingGroups(groups)
      allowed == LongestOf(Matching(UNION {g.allow : g \in matching}, path))
      disallowed == LongestOf(Matching(UNION {g.disallow : g \in matching}, path))
  IN IF matching = {} THEN "unknown" ELSE IF disallowed > allowed THEN "disallowed" ELSE "allowed"

\* The policy of one path: a robots.txt without a group for the crawler says nothing.
Policy(lines, path, maxDelay) ==
  LET outcome == Outcome(RuleGroups(lines), path)
      delay == MatchedDelay(CrawlDelays(lines))
  IN [outcome |-> outcome,
      delay |-> IF outcome = "unknown" \/ delay = NoDelay THEN NoDelay
                ELSE IF delay > maxDelay THEN maxDelay ELSE delay]

-----------------------------------------------------------------------------
(* The standard, stated over the lines.                                    *)

\* The rule of line i is in the group the agent of line j begins: no rule
\* between them is followed by another agent.
Governs(lines, j, i) ==
  /\ j < i /\ IsAgent(lines[j]) /\ IsRule(lines[i])
  /\ ~\E k \in (j + 1)..(i - 1) : IsRule(lines[k]) /\ \E l \in (k + 1)..(i - 1) : IsAgent(lines[l])

RulesFor(lines, agent) ==
  {lines[i] : i \in {i \in DOMAIN lines :
     \E j \in DOMAIN lines : Governs(lines, j, i) /\ lines[j].value = agent}}

\* The crawler is kept from a path by a rule no allow is as specific as.
Forbidden(lines, path) ==
  LET named == \E j \in DOMAIN lines : IsAgent(lines[j]) /\ lines[j].value = UserAgent
      rules == {r \in RulesFor(lines, IF named THEN UserAgent ELSE Anyone) :
                  r.value # <<>> /\ IsPrefix(r.value, path)}
  IN \E d \in rules : /\ d.directive = "disallow"
                      /\ \A a \in rules : a.directive = "allow" => Len(a.value) < Len(d.value)
=============================================================================
