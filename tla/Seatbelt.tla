------------------------------ MODULE Seatbelt ------------------------------
(***************************************************************************)
(* The second layer on macOS, crates/mcparmor-broker/src/sandbox/macos.rs: *)
(* the allow rules of the profile that is generated from a manifest.  The  *)
(* baseline is "(deny default)", so the profile is the set of its rules    *)
(* (mach, signal, sysctl and process-info rules, the same for every        *)
(* manifest, are left out), and a rule is kept as what it admits.          *)
(***************************************************************************)
EXTENDS Policy

CONSTANT Home  \* what dirs::home_dir() gives, a path

WriteBelow(prefix) == [op |-> "write", below |-> prefix]
Connect(port) == [op |-> "connect", port |-> port]  \* (remote tcp "*:port")
ConnectLocal(host) == [op |-> "local", host |-> host]
Exec(path) == [op |-> "exec", path |-> path]
ExecAny == [op |-> "exec any"]
ReadAny == [op |-> "read any"]

(* Path::join: an absolute path replaces what it is joined to.             *)
ExpandHome(path) ==
  IF path = <<"~">> THEN Home
  ELSE IF IsPrefix(<<"~", "/">>, path)
  THEN IF Len(path) > 2 /\ path[3] = "/" THEN From(path, 3)
       ELSE Home \o <<"/">> \o From(path, 3)
  ELSE path

GlobTokens == {"*", "**", "?", "[", "]", "{", "}"}

(* Mutant: a glob is cut off where it begins and not at its component.     *)
CutAtGlob(pattern) ==
  LET p == ExpandHome(pattern)
      first == SelectInSeq(p, LAMBDA t : t \in GlobTokens)
  IN  IF first = 0 THEN p ELSE SubSeq(p, 1, first - 1)

(* The components before the first one with a glob character.              *)
GlobToSubpathPrefix(pattern) ==
  LET p == ExpandHome(pattern)
      first == SelectInSeq(p, LAMBDA t : t \in GlobTokens)
      prefix == IF first = 0 THEN p
                ELSE SubSeq(p, 1, LastOf(SubSeq(p, 1, first), "/") - 1)
  IN  IF prefix = <<>> THEN <<"/">> ELSE prefix

SystemAllowances == {ReadAny, WriteBelow(<<"/", "private", "/", "tmp">>)}

FilesystemRules(m) == {WriteBelow(GlobToSubpathPrefix(w)) : w \in m.write}

SpawnRules(m) == IF m.spawn THEN {ExecAny} ELSE {}

(* network_rule_to_sbpl: the port alone, no rule for a malformed port.     *)
NetworkRuleToSbpl(rule) ==
  LET colon == LastOf(rule, ":")
      port == From(rule, colon + 1)
  IN  IF colon > 0 /\ (port = <<"*">> \/ U16(port) >= 0) THEN {Connect(port)} ELSE {}

NetworkRules(m) ==
  LET allowLocal == m.profile = "browser" /\ ~m.denyLocal
  IN  (IF m.allow # {} \/ allowLocal THEN {Connect(<<"53">>)} ELSE {})
      \cup UNION {NetworkRuleToSbpl(rule) : rule \in m.allow}
      \cup (IF allowLocal THEN {ConnectLocal(<<"localhost">>)} ELSE {})

GenerateSbplProfile(m, tool) ==
  SystemAllowances \cup {Exec(tool)} \cup FilesystemRules(m) \cup SpawnRules(m)
    \cup NetworkRules(m)

-----------------------------------------------------------------------------
(* How the kernel reads the rules.                                         *)

Below(prefix, path) ==
  prefix = <<"/">> \/ path = prefix \/ IsPrefix(prefix \o <<"/">>, path)

MayWrite(profile, path) ==
  \E r \in profile : r.op = "write" /\ Below(r.below, path)

MayConnect(profile, port) ==
  \E r \in profile : r.op = "connect" /\ (r.port = <<"*">> \/ U16(r.port) = port)
=============================================================================
