------------------------------ MODULE Startup ------------------------------
(***************************************************************************)
(* How `mcparmor run` comes to the manifest it enforces, and how `init`    *)
(* and `validate` see one: crates/mcparmor-broker/src/broker.rs.           *)
(*                                                                         *)
(* A file is a pair of its directory and its name; a relative name has the *)
(* directory "".  The content of a manifest is what the code tells apart:  *)
(* absent, torn (not JSON: an edit gone wrong, or a write that stopped     *)
(* half way), or JSON that passes the schema or not, passes serde or not,  *)
(* and holds the fields that `run` looks at before it starts the tool.     *)
(***************************************************************************)
EXTENDS Sandbox, FiniteSets

CONSTANTS
  Dir,          \* directories
  Name,         \* what files, profiles and words of a command line are called
  Parent,       \* the parent of each, "" at the root
  SearchDepth   \* ARMOR_SEARCH_DEPTH

ASSUME StartupAssumption ==
  /\ "" \notin Dir
  /\ Parent \in [Dir -> Dir \cup {""}]
  /\ SearchDepth \in Nat \ {0}

BrokerSpec == <<1, 0>>
Profiles == {"strict", "sandboxed", "network", "system", "browser"}

Absent == [kind |-> "absent"]
Torn == [kind |-> "torn"]
Json(id, profile, locked, denyLocal, minSpec) ==
  [kind |-> "json", id |-> id, schema |-> TRUE, struct |-> TRUE, profile |-> profile,
   locked |-> locked, denyLocal |-> denyLocal, minSpec |-> minSpec]

Version == {<<>>} \cup (Nat \X Nat)
IsContent(content) ==
  \/ content \in {Absent, Torn}
  \/ content \in [kind : {"json"}, id : Name, schema : BOOLEAN, struct : BOOLEAN,
                  profile : Name, locked : BOOLEAN, denyLocal : BOOLEAN,
                  minSpec : SUBSET Version]

ArmorJson(dir) == <<dir, "armor.json">>
InDir(file, cwd) == IF file[1] = "" THEN <<cwd, file[2]>> ELSE file
Content(files, file) == IF file \in DOMAIN files THEN files[file] ELSE Absent
Exists(files, file) == Content(files, file).kind # "absent"

(* The parse of both versions; <<>> is a version that does not parse.      *)
SpecVersionLe(required, available) ==
  /\ required # <<>> /\ available # <<>>
  /\ \/ required[1] < available[1]
     \/ required[1] = available[1] /\ required[2] <= available[2]

(* min_spec is one version, or none.                                       *)
CheckMinSpec(manifest) ==
  \A required \in manifest.minSpec : SpecVersionLe(required, BrokerSpec)

(* The directories search_armor_upward looks into, from cwd upward.        *)
Ancestor(dir, k) ==
  LET up[i \in 0..k] == IF i = 0 THEN dir
                        ELSE IF up[i - 1] = "" THEN "" ELSE Parent[up[i - 1]]
  IN  up[k]

SearchArmorUpward(files, cwd) ==
  LET Holds(k) == Ancestor(cwd, k) # "" /\ Exists(files, ArmorJson(Ancestor(cwd, k)))
      depths == {k \in 0..SearchDepth - 1 : Holds(k)}
  IN  IF depths = {} THEN {}
      ELSE {ArmorJson(Ancestor(cwd, CHOOSE k \in depths : \A l \in depths : k <= l))}

StrictFallbackManifest == Json("fallback", "strict", FALSE, TRUE, {})

(* load_manifest: serde decides, the schema is not looked at.              *)
Loads(content) == content.kind = "json" /\ content.struct

Refused == [ok |-> FALSE]
Found(file, content) ==
  IF Loads(content) THEN [ok |-> TRUE, from |-> {file}, manifest |-> content] ELSE Refused
Fallback == [ok |-> TRUE, from |-> {}, manifest |-> StrictFallbackManifest]

(* Mutant: an explicit path that is missing or does not load is no error.  *)
ResolveOrFallBack(files, hint, cwd) ==
  LET found == IF hint # {} THEN {InDir(h, cwd) : h \in hint} ELSE SearchArmorUpward(files, cwd)
      usable == {f \in found : Loads(Content(files, f))}
  IN  IF usable = {} THEN Fallback
      ELSE LET file == CHOOSE f \in usable : TRUE IN Found(file, Content(files, file))

(* hint is the --armor path, or none.  A path that was given and a file    *)
(* that was found must load; only a search that finds nothing falls back.  *)
ResolveManifest(files, hint, cwd) ==
  LET found == IF hint # {} THEN {InDir(h, cwd) : h \in hint} ELSE SearchArmorUpward(files, cwd)
  IN  IF found = {} THEN Fallback
      ELSE LET file == CHOOSE f \in found : TRUE IN Found(file, Content(files, file))

(* parse_profile knows the five names; another name changes nothing.       *)
ApplyProfileOverride(manifest, override) ==
  IF manifest.locked \/ override \cap Profiles = {} THEN manifest
  ELSE [manifest EXCEPT !.profile = CHOOSE p \in override : TRUE]

ApplyBrowserDefaults(manifest) ==
  IF manifest.profile = "browser" THEN [manifest EXCEPT !.denyLocal = FALSE] ELSE manifest

(* Mutant: the defaults come before the override.                          *)
DefaultsThenOverride(manifest, override) ==
  ApplyProfileOverride(ApplyBrowserDefaults(manifest), override)

Effective(manifest, override) ==
  ApplyBrowserDefaults(ApplyProfileOverride(manifest, override))

(* AuditWriter::disabled, at_path and new: a log of the user's own is      *)
(* neither rotated nor pruned.                                             *)
Disabled == [path |-> {}, limited |-> FALSE]
AtPath(path) == [path |-> {path}, limited |-> FALSE]
NewAuditWriter(path) == [path |-> {path}, limited |-> TRUE]
BuildAuditWriter(noAudit, auditLog) ==
  IF noAudit THEN Disabled
  ELSE IF auditLog # {} THEN AtPath(CHOOSE p \in auditLog : TRUE)
  ELSE NewAuditWriter(<<"~", "audit.jsonl">>)

(* run: what the proxy is started with, or the refusal.                    *)
Run(files, args, cwd, platform) ==
  LET found == ResolveManifest(files, args.armor, cwd)
      manifest == Effective(found.manifest, args.profile)
  IN  IF ~found.ok \/ ~CheckMinSpec(found.manifest) THEN Refused
      ELSE [ok |-> TRUE, from |-> found.from, file |-> found.manifest, manifest |-> manifest,
            audit |-> BuildAuditWriter(args.noAudit, args.auditLog),
            process |-> SpawnToolProcess(manifest, args.command, args.noOsSandbox, platform)]

-----------------------------------------------------------------------------
(* validate, and the advisory warning that concerns `run`.                 *)
PassesSchema(content) == content.kind = "json" /\ content.schema
Valid(content) == PassesSchema(content) /\ content.struct
WarnsOfSpec(content) == ~CheckMinSpec(content)

(* init: the templates of --profile, and the questionnaire, which leaves   *)
(* deny_local to its default.                                              *)
GenerateArmorJson(profile) == Json("init", profile, FALSE, profile # "browser", {})
GenerateInteractive(profile, locked) == Json("init", profile, locked, TRUE, {})
=============================================================================
