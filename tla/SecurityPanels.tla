--------------------------- MODULE SecurityPanels ---------------------------
(***************************************************************************)
(* The firewall and detection panels (SecurityPanel.tsx), the handlers     *)
(* they call and the two containers behind them.  firewall:reload pipes a  *)
(* script of nft commands into a shell of the firewall container: `set -e` *)
(* ends it at the first command that fails, and nothing keeps two shells   *)
(* from running at once.  A packet stands for the first of a connection;   *)
(* the `established` baseline is about later ones.                         *)
(***************************************************************************)
EXTENDS ComposePlan

CONSTANTS
  Forms,        \* what the add-rule form can hold: rules
  Texts,        \* drafts of custom Suricata rules, "" among them
  Accepted,     \* those Suricata accepts
  Garbage,      \* a port that is not a number
  MaxRules, MaxReloads, MaxEdits

\* What is absent is neither a text nor a protocol.
ASSUME PanelAssumption ==
  None \notin Texts /\ None # "icmp" /\ MaxReloads \in Nat /\ MaxRules \in Nat

VARIABLES
  policy,       \* scenario.security.defaultFirewallPolicy: "deny" or "allow"
  rules,        \* scenario.security.firewallRules
  applyState,   \* the Apply button: "idle", "applying", "ok", "error"
  timers,       \* 3 s timers that set it back to idle
  reloads,      \* shells of the container, by number: the script, what is left of it,
                \* whether the panel that asked still listens, and whether it runs
  asked,        \* reloads asked for so far
  chain,        \* the forward chain of the container, None when it does not run: its
                \* policy and rules, and, for the properties, the reload that flushed
                \* it last, that one's table, whether another wrote since and whether
                \* it came to its end
  draft, customRules,   \* the textarea and what Save stored
  check,        \* ids:validateRules in flight: the text, or None
  ruleCheck,    \* the verdict shown: [text, status], or None
  edits         \* edits of the panels so far

fwVars  == <<policy, rules, applyState, timers, reloads, asked, chain>>
idsVars == <<draft, customRules, check, ruleCheck>>
panelVars == <<policy, rules, applyState, timers, reloads, asked, chain,
               draft, customRules, check, ruleCheck, edits>>

Edit == edits < MaxEdits /\ edits' = edits + 1
Has(category) == lab # None /\ \E i \in DOMAIN lab.devices : lab.devices[i].category = category

-----------------------------------------------------------------------------
(* The script.                                                             *)

\* on is activeZones, the networks of the running lab.
Clause(zone, on) == IF zone = "any" THEN None ELSE on[zone]

\* A tcp or udp rule without a port has no protocol clause either.
Command(r, on) ==
  [op |-> IF r.protocol \in {"tcp", "udp"} /\ r.port = Garbage THEN "bad" ELSE "add",
   src |-> Clause(r.source, on), dst |-> Clause(r.destination, on),
   protocol |-> IF r.protocol = "icmp" \/ (r.protocol # "any" /\ r.port # "any")
                  THEN r.protocol ELSE None,
   port |-> IF r.protocol \in {"tcp", "udp"} /\ r.port # "any" THEN r.port ELSE None,
   verdict |-> IF r.action = "allow" THEN "accept" ELSE "drop"]

Everything(verdict) ==
  [op |-> "add", src |-> None, dst |-> None, protocol |-> None, port |-> None, verdict |-> verdict]
Baseline == [Everything("accept") EXCEPT !.protocol = "icmp"]

Commands(list, action, on) ==
  LET Is(r) == r.action = action
      chosen == Those(list, Is)
  IN  [i \in DOMAIN chosen |-> Command(chosen[i], on)]

\* The rules of a chain that a container starts with, and that a reload adds.
\* Mutant of Ruleset: in the order of the table.
RulesetInOrder(list, on) ==
  <<Baseline>> \o [i \in DOMAIN list |-> Command(list[i], on)] \o <<Everything("reject")>>
Ruleset(list, on) ==
  <<Baseline>> \o Commands(list, "deny", on) \o Commands(list, "allow", on) \o <<Everything("reject")>>

NftPolicy(p) == IF p = "deny" THEN "drop" ELSE "accept"
buildNftScript(list, p, on) ==
  <<[op |-> "flush"], [op |-> "policy", policy |-> NftPolicy(p)]>> \o Ruleset(list, on)

-----------------------------------------------------------------------------
(* What a chain does with a packet.                                        *)

Packets == [source : {"attacker", "control"}, destination : {"ot"},
            protocol : {"tcp", "icmp"}, port : {"502", "80"}]

Matches(c, p, on) == /\ c.src \in {None, on[p.source]} /\ c.dst \in {None, on[p.destination]}
                     /\ c.protocol \in {None, p.protocol} /\ c.port \in {None, p.port}

\* The first rule that matches decides, the policy when none does.
Verdict(list, default, p, on) ==
  LET hits == {i \in DOMAIN list : Matches(list[i], p, on)}
  IN  IF hits = {} THEN default
      ELSE list[CHOOSE i \in hits : \A j \in hits : i <= j].verdict
Passes(list, default, p, on) == Verdict(list, default, p, on) = "accept"

-----------------------------------------------------------------------------
(* The firewall panel.                                                     *)

PanelInit ==
  /\ policy = "deny" /\ rules = <<>> /\ applyState = "idle" /\ timers = 0
  /\ reloads = <<>> /\ asked = 0 /\ chain = None /\ edits = 0
  /\ draft = "" /\ customRules = "" /\ check = None /\ ruleCheck = None

togglePolicy ==
  /\ Has("firewall") /\ Edit /\ policy' = IF policy = "deny" THEN "allow" ELSE "deny"
  /\ UNCHANGED <<planVars, rules, applyState, timers, reloads, asked, chain, idsVars>>

addRule ==
  /\ Has("firewall") /\ Edit /\ Len(rules) < MaxRules
  /\ \E r \in Forms : rules' = Append(rules, r)
  /\ UNCHANGED <<planVars, policy, applyState, timers, reloads, asked, chain, idsVars>>

deleteRule ==
  /\ Has("firewall") /\ Edit
  /\ \E i \in DOMAIN rules : rules' = SubSeq(rules, 1, i - 1) \o SubSeq(rules, i + 1, Len(rules))
  /\ UNCHANGED <<planVars, policy, applyState, timers, reloads, asked, chain, idsVars>>

\* Apply: firewall:reload builds the script from what the panel holds now.
applyRules ==
  /\ Has("firewall") /\ up /\ applyState # "applying" /\ asked < MaxReloads
  /\ applyState' = "applying" /\ asked' = asked + 1
  /\ reloads' = Merge(reloads, [n \in {asked + 1} |->
       [list |-> rules, policy |-> policy, todo |-> buildNftScript(rules, policy, zones),
        heard |-> TRUE, runs |-> TRUE]])
  /\ UNCHANGED <<planVars, policy, rules, timers, chain, idsVars, edits>>

\* One nft command in the container.
Effect(cmd, n) ==
  CASE cmd.op = "flush" -> [chain EXCEPT !.rules = <<>>, !.by = n, !.list = reloads[n].list,
                                         !.mixed = FALSE, !.done = FALSE]
    [] cmd.op = "policy" -> [chain EXCEPT !.policy = cmd.policy, !.mixed = @ \/ chain.by # n]
    [] cmd.op = "add" -> [chain EXCEPT !.rules = Append(@, cmd), !.mixed = @ \/ chain.by # n]

\* A shell ends: the panel, when it is still there, shows the answer for 3 s.
Answered(n, answer) ==
  /\ reloads' = Drop(reloads, n)
  /\ IF reloads[n].heard
       THEN applyState' = answer /\ timers' = timers + 1
       ELSE UNCHANGED <<applyState, timers>>

ReloadStep ==
  /\ chain # None
  /\ \E n \in DOMAIN reloads :
       LET todo == reloads[n].todo
       IN  /\ reloads[n].runs
           /\ IF todo = <<>>
                THEN Answered(n, "ok") /\ chain' = [chain EXCEPT !.done = @ \/ chain.by = n]
              ELSE IF Head(todo).op = "bad"
                THEN Answered(n, "error") /\ UNCHANGED chain
              ELSE /\ reloads' = [reloads EXCEPT ![n].todo = Tail(@)]
                   /\ chain' = Effect(Head(todo), n) /\ UNCHANGED <<applyState, timers>>
  /\ UNCHANGED <<planVars, policy, rules, asked, idsVars, edits>>

\* The container goes, or docker exec fails otherwise.
ReloadFails ==
  /\ \E n \in DOMAIN reloads : Answered(n, "error")
  /\ UNCHANGED <<planVars, policy, rules, asked, chain, idsVars, edits>>

\* A timer does not know whether the panel has gone on to another reload.
ApplyIdle ==
  /\ timers > 0 /\ timers' = timers - 1 /\ applyState' = "idle"
  /\ UNCHANGED <<planVars, policy, rules, reloads, asked, chain, idsVars, edits>>

\* Another device is selected: the panel's own state goes, its timers with it.
Deselect ==
  /\ Edit /\ (applyState # "idle" \/ check # None \/ ruleCheck # None \/ draft # customRules)
  /\ applyState' = "idle" /\ timers' = 0
  /\ reloads' = [n \in DOMAIN reloads |-> [reloads[n] EXCEPT !.heard = FALSE]]
  /\ draft' = customRules /\ check' = None /\ ruleCheck' = None
  /\ UNCHANGED <<planVars, policy, rules, asked, chain, customRules>>

\* The container comes up with FW_RULES_JSON: a rule nft refuses ends its start script.
FirewallUp ==
  chain' = IF /\ Has("firewall")
              /\ \A i \in DOMAIN Ruleset(rules, zones) : Ruleset(rules, zones)[i].op # "bad"
             THEN [policy |-> NftPolicy(policy), rules |-> Ruleset(rules, zones), list |-> rules,
                   by |-> 0, mixed |-> FALSE, done |-> TRUE]
             ELSE None

\* The container goes, and the shells in it.
FirewallDown ==
  /\ chain' = None
  /\ reloads' = [n \in DOMAIN reloads |-> [reloads[n] EXCEPT !.runs = FALSE]]

-----------------------------------------------------------------------------
(* The detection panel: custom rules and their check.                      *)

onDraft ==
  /\ Has("ids-ips") /\ Edit /\ \E t \in Texts \ {draft} : draft' = t
  /\ UNCHANGED <<planVars, fwVars, customRules, check, ruleCheck>>

\* Save stores the draft and has it checked; an empty one clears the verdict.
commitCustomRules ==
  /\ Has("ids-ips") /\ check = None /\ Edit /\ customRules' = draft
  /\ IF draft = "" THEN ruleCheck' = None /\ UNCHANGED check
                   ELSE check' = draft /\ UNCHANGED ruleCheck
  /\ UNCHANGED <<planVars, fwVars, draft>>

\* Suricata's own verdict, or none when Docker cannot run it or it does not finish.
interpretRuleTest(text) ==
  {IF text \in Accepted THEN "valid" ELSE "invalid", "unavailable"}

CheckAnswered ==
  /\ check # None /\ check' = None
  /\ \E status \in interpretRuleTest(check) : ruleCheck' = [text |-> check, status |-> status]
  /\ UNCHANGED <<planVars, fwVars, draft, customRules, edits>>

PanelStep ==
  \/ togglePolicy \/ addRule \/ deleteRule \/ applyRules \/ ReloadStep \/ ReloadFails
  \/ ApplyIdle \/ Deselect \/ onDraft \/ commitCustomRules \/ CheckAnswered

-----------------------------------------------------------------------------
(* Properties.                                                             *)

RuleMatches(r, p, on) == Matches(Command(r, on), p, on)
Listed(list, action, p, on) ==
  \E i \in DOMAIN list : list[i].action = action /\ RuleMatches(list[i], p, on)

\* What the table of rules means: an explicit deny overrides every allow, whatever
\* the order they were added in, and what no rule allows is refused.
Meant(list, p, on) ==
  p.protocol = "icmp" \/ (Listed(list, "allow", p, on) /\ ~Listed(list, "deny", p, on))

\* The chain of a running firewall does what the table it was given means, once the
\* reload that flushed it last has come to its end and no other wrote into it; and a
\* reload under way, or one that failed half-way, lets nothing through that its own
\* table refuses while the chain's policy is drop.
ReloadSound ==
  chain # None /\ ~chain.mixed =>
    \A p \in Packets :
      LET passes == Passes(chain.rules, chain.policy, p, zones)
      IN  /\ chain.done => (passes <=> Meant(chain.list, p, zones))
          /\ chain.policy = "drop" => (passes => Meant(chain.list, p, zones))

\* A verdict is about the text that is saved, and says valid only of rules the sensor
\* will load.
CheckHonest ==
  ruleCheck # None /\ check = None =>
    /\ ruleCheck.text = customRules
    /\ ruleCheck.status = "valid" => customRules \in Accepted

\* What the panels say holds: of the firewall's rules and of the sensor's.
PanelsHonest == ReloadSound /\ CheckHonest
=============================================================================
