---------------------------- MODULE PluginEngine -----------------------------
(***************************************************************************)
(* The plugin engine (pkg/plugins/engine.go): which plugins of a directory *)
(* are loaded, and which of them report a finding about one service.       *)
(*                                                                         *)
(* A version is the sequence of the numbers in its text (splitVersionParts *)
(* keeps nothing else of it): << >> of a text without one, like the "for"  *)
(* of OpenSSH_for_Windows. A number too long for strconv.Atoi, which the   *)
(* code skips, is left out. Where the text itself may be empty there is a  *)
(* set, {} without a text and {v} with one of version v. A pattern is the  *)
(* set of the banners it matches: "" is no banner, and a pattern like ".*" *)
(* has it as a member. Names are compared without case, so they are        *)
(* written in lower case.                                                  *)
(***************************************************************************)
EXTENDS Integers, Sequences

SafetyClasses == <<"passive", "active-safe", "active-noisy", "intrusive", "destructive">>

\* A class the table does not have ranks 0: such a plugin is always permitted,
\* such a ceiling permits nothing else.
Rank(class) == IF \E i \in DOMAIN SafetyClasses : SafetyClasses[i] = class
               THEN CHOOSE i \in DOMAIN SafetyClasses : SafetyClasses[i] = class
               ELSE 0

IsSafetyPermitted(checkSafety, ceiling) ==
  Rank(checkSafety) <= Rank(IF ceiling = "" THEN "active-safe" ELSE ceiling)

-----------------------------------------------------------------------------
(* Versions. A missing part counts as 0.                                    *)

Part(v, i) == IF i \in 1..Len(v) THEN v[i] ELSE 0

Earlier(u, v) == \E i \in 1..Len(u) + Len(v) :
                   /\ Part(u, i) < Part(v, i)
                   /\ \A j \in 1..(i - 1) : Part(u, j) = Part(v, j)

\* Fault: the parts are compared one by one, without the ones before.
ComparePartwise(u, v) ==
  IF \E i \in 1..Len(u) + Len(v) : Part(u, i) < Part(v, i) THEN -1 ELSE 0

CompareVersions(u, v) ==
  IF Earlier(u, v) THEN -1 ELSE IF Earlier(v, u) THEN 1 ELSE 0

\* Neither vRange nor ecosystem is read, and the branch for a backported
\* release is empty. A text without a number counts as version 0.
MatchVersion(installed, fixedIn) ==
  \E v \in installed, fix \in fixedIn : CompareVersions(v, fix) = -1

MatchPackage(packages, name, fixedIn) ==
  /\ name \in DOMAIN packages
  /\ \E fix \in fixedIn : CompareVersions(packages[name], fix) = -1

\* info: what probeTLS has filed, "" without it.
MatchTLS(info, pattern) == \/ pattern = "weak_ciphers" /\ info = "old"
                           \/ pattern = "expired" /\ info = "expired"
                           \/ pattern = "self_signed" /\ info = "self_signed"

-----------------------------------------------------------------------------
(* One plugin and one service.                                              *)

\* An OS requirement is the set of the os-release IDs that contain it. Without
\* host facts the asset has no OS family, and the host facts it takes it from.
MatchesRequirements(p, svc, facts) ==
  /\ p.services # {} => {svc.name, svc.product} \cap p.services # {}
  /\ p.ports # {} => svc.port \in p.ports
  /\ p.os # {} => facts.os \in p.os
  /\ p.credentials => facts.read

\* "banner" stands for http-status and for an unknown type too: all three look
\* for a pattern in the banner. A package matcher without facts has not matched,
\* and the negation is applied to that.
OnBanner(m) == m.type \notin {"version", "tls", "package"}

Matches(m, svc, facts) ==
  LET matched ==
        \/ m.type = "version" /\ MatchVersion(svc.version, m.fixedIn)
        \/ m.type = "tls" /\ MatchTLS(svc.tls, m.pattern)
        \/ m.type = "package" /\ facts.read /\ MatchPackage(facts.packages, m.var, m.fixedIn)
        \/ OnBanner(m) /\ svc.banner \in m.pattern
  IN  matched # m.negative

EvaluateMatchers(p, svc, facts) ==
  \/ p.cond = "and" /\ p.matchers # {} /\ \A m \in p.matchers : Matches(m, svc, facts)
  \/ p.cond = "or" /\ \E m \in p.matchers : Matches(m, svc, facts)

\* The plugins that report a finding about svc.
EvaluateService(loaded, svc, facts, ceiling) ==
  {p \in loaded : /\ IsSafetyPermitted(p.safety, ceiling)
                  /\ MatchesRequirements(p, svc, facts)
                  /\ EvaluateMatchers(p, svc, facts)}

-----------------------------------------------------------------------------
(* The directory, in the order it is walked: each file is not YAML          *)
(* ("other"), a plugin ("plugin"), or one that cannot be read or parsed or  *)
(* has no ID ("bad"), which ends the walk. A later plugin takes the place   *)
(* of an earlier one with its ID. `sieve scan` and `sieve server` go on     *)
(* with whatever has been loaded by then.                                   *)

\* Fault: the first plugin with an ID stays.
LoadFirstWins(files) ==
  {files[i].plugin : i \in {i \in 1..Len(files) :
     /\ files[i].kind = "plugin"
     /\ \A j \in 1..(i - 1) : files[j].kind = "plugin" => files[j].plugin.id # files[i].plugin.id}}

LoadFromDir(files) ==
  LET Reached(i) == \A j \in 1..i : files[j].kind # "bad"
      Kept(i) == /\ files[i].kind = "plugin" /\ Reached(i)
                 /\ \A j \in (i + 1)..Len(files) :
                      files[j].kind = "plugin" /\ Reached(j)
                        => files[j].plugin.id # files[i].plugin.id
  IN  {files[i].plugin : i \in {i \in 1..Len(files) : Kept(i)}}
==============================================================================
