--------------------------- MODULE MCDeployment ---------------------------
(***************************************************************************)
(* A package with a tool, a user's and a host's directory, and the release *)
(* of the community profiles, for the runs of Deployment.                  *)
(***************************************************************************)
EXTENDS Deployment

MCName == STRING
MCDir == {"pkg", "bin", "top", "mid", "host", "work", "community"}
MCParent ==
  [bin |-> "pkg", pkg |-> "", host |-> "mid", mid |-> "top", top |-> "",
   work |-> "", community |-> ""]
MCPlatforms ==
  {[os |-> "linux", kernel |-> <<5, 13, 0>>, sandboxExec |-> FALSE],
   [os |-> "macos", kernel |-> <<>>, sandboxExec |-> TRUE],
   [os |-> "windows", kernel |-> <<>>, sandboxExec |-> FALSE]}

MCDashed == ValueNames \cup FlagNames \cup {"--"}

(* A tool with the broker's own words among its arguments, a remote one,   *)
(* and one wrapped by hand with other spellings of the options; then a     *)
(* tool started by a bare command, and one wrapped by hand with a line     *)
(* that clap rejects.                                                      *)
MCServers ==
  [a |-> Stdio(<<"bin", "tool">>, <<Word("--armor"), Word("x"), Separator, Word("run")>>),
   h |-> Http,
   v |-> Stdio(Broker, <<Word("run"), <<"-a", ArmorJson("pkg")>>, Word("--no-os-sandbox"),
                         Separator, <<"bin", "tool">>>>)]
MCNewServers ==
  [b |-> Stdio(Word("npx"), <<Word("server")>>),
   w |-> Stdio(Broker, <<Word("run"), Word("--armor"), Separator,
                         <<"bin", "tool">>, Separator>>)]

Locked == Json("locked", "strict", TRUE, TRUE, {})
Open == Json("open", "sandboxed", FALSE, TRUE, {})
Newer == Json("newer", "browser", FALSE, TRUE, {<<1, 1>>})
Released == Json("released", "network", FALSE, TRUE, {<<1, 0>>})
Drafted == Json("drafted", "system", FALSE, FALSE, {<<0, 9>>})
Loose == [Json("loose", "system", FALSE, TRUE, {<<>>}) EXCEPT !.schema = FALSE]
Unfit == [Json("unfit", "system", FALSE, TRUE, {}) EXCEPT !.struct = FALSE]

MCUserFiles ==
  ArmorJson("pkg") :> {Absent, Locked, Open} @@
  ArmorJson("top") :> {Absent, Newer} @@
  <<"work", "a">> :> {Drafted, Loose, Unfit}

Wrap(rewrap, profile, noArmorPath) ==
  [rewrap |-> rewrap, profile |-> profile, noArmorPath |-> noArmorPath]
MCWrapOptions ==
  {Wrap(FALSE, {}, FALSE), Wrap(TRUE, {"browser"}, FALSE), Wrap(TRUE, {"other"}, TRUE)}

MCIndex == <<[name |-> "a", sha |-> TRUE], [name |-> "c", sha |-> FALSE]>>
MCPublished == [a |-> Released, c |-> Released]
MCGarbled == {Json("garbled", "strict", FALSE, TRUE, {})}
MCDraft == <<"work", "a">>
MCTarget == ArmorJson("work")
MCTemplates == {GenerateArmorJson("browser"), GenerateInteractive("browser", TRUE)}
=============================================================================
