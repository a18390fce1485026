---------------------------- MODULE Deployment ----------------------------
(***************************************************************************)
(* The files that decide what a host starts, over time: the host's MCP     *)
(* configuration and its backup, the armor.json files, the community       *)
(* profiles.  `wrap`, `unwrap`, `init`, `profiles update` and `profiles    *)
(* add` change them, one command at a time, with the writes of each as     *)
(* separate steps between which the command may be killed; users edit      *)
(* them.  Whatever the host starts from an entry is Launch of HostConfig.  *)
(***************************************************************************)
EXTENDS HostConfig

CONSTANTS
  Servers,      \* the entries of the configuration at first
  NewServers,   \* those a user may add to it
  UserFiles,    \* the files users write, with the contents they give them
  WrapOptions,  \* the command lines of wrap
  Index,        \* the release's index: names, and whether with a checksum
  Published,    \* the content of each profile of the release
  Garbled,      \* what else a download may yield
  Draft,        \* the file given to `profiles add`
  Target,       \* the file init writes
  Templates,    \* and what it may write there
  Cwd, HostCwd, \* where the user's commands run, and where the host runs
  Platforms,    \* where all this may happen
  MaxActs       \* bound on commands and edits

ASSUME DeploymentAssumption ==
  /\ WrapOptions \subseteq WrapArgs /\ Platforms \subseteq Platform
  /\ {Cwd, HostCwd, Community} \subseteq Dir
  /\ \A i \in DOMAIN Index : Index[i].name \in DOMAIN Published /\ Index[i].sha \in BOOLEAN
  /\ MaxActs \in Nat

(* The name of a profile that wrap is given begins with no hyphen.         *)
ASSUME EntriesAssumption ==
  /\ DOMAIN Servers \cup DOMAIN NewServers \subseteq Name
  /\ \A s \in DOMAIN Servers : IsEntry(Servers[s])
  /\ \A s \in DOMAIN NewServers : IsEntry(NewServers[s])
  /\ \A opts \in WrapOptions :
       opts.profile \cap Dashed = {} /\ \A p, q \in opts.profile : p = q

ASSUME ContentsAssumption ==
  /\ \A f \in DOMAIN UserFiles : \A c \in UserFiles[f] : IsContent(c)
  /\ \A name \in DOMAIN Published : IsContent(Published[name])
  /\ \A c \in Garbled \cup Templates : IsContent(c)

(* A download that went wrong is recognised by its content; the profiles   *)
(* of the release have different names and are changed by the broker only. *)
ASSUME UpdateAssumption ==
  /\ Index \in Seq([name : Name, sha : BOOLEAN])
  /\ \A i, j \in DOMAIN Index : Index[i].name = Index[j].name => i = j
  /\ \A f \in DOMAIN UserFiles : f[1] # Community /\ UserFiles[f] \cap Garbled = {}
  /\ Target[1] # Community /\ Templates \cap Garbled = {}
  /\ \A name \in DOMAIN Published : Published[name] \notin Garbled \cup {Torn, Absent}
  /\ Garbled \cap {Torn, Absent} = {}

VARIABLES
  files,     \* content of the armor.json files and profiles
  config,    \* the entries of the configuration, or Torn
  backup,    \* likewise, or Absent
  job,       \* the command in progress
  torn,      \* the command that left the configuration torn
  original,  \* history: the tool of each entry as the user wrote it
  found,     \* history: the absolute path wrap embedded in each entry
  updated,   \* history: the last change of a profile was a successful update
  acts       \* bounded by MaxActs

userVars == <<config, backup, torn, original, found>>
vars == <<files, userVars, job, updated, acts>>

Idle == [cmd |-> "idle"]
Whole(content) == content \notin {Torn, Absent}
Recovered(servers) == [s \in DOMAIN servers |-> UnwrapServer(servers[s])]
Nowhere(servers) == [s \in DOMAIN servers |-> {}]

Init ==
  /\ files \in [DOMAIN UserFiles -> {Absent}]
  /\ config = Servers /\ backup = Absent /\ torn = ""
  /\ original = Recovered(Servers) /\ found = Nowhere(Servers)
  /\ job = Idle /\ updated = FALSE /\ acts = 0

Acts == acts < MaxActs /\ acts' = acts + 1
Begins(command) == job = Idle /\ Acts /\ job' = command
Step(cmd, step) == job.cmd = cmd /\ job.step = step
With(f, x, v) == [y \in DOMAIN f \cup {x} |-> IF y = x THEN v ELSE f[y]]
Put(file, content) == files' = With(files, file, content)

-----------------------------------------------------------------------------
(* wrap: a configuration in which nothing is to be wrapped is not written. *)

Embedded(old, new) ==
  [s \in DOMAIN new |->
     IF ~IsBroker(new[s]) \/ new[s] = old[s] THEN found[s]
     ELSE {f \in ExtractArmorPath(SubSeq(new[s].args, 1, First(new[s].args, Separator))) : f[1] # ""}]

WrapStart ==
  \E opts \in WrapOptions :
    /\ Whole(config) /\ Changes(config, opts)
    /\ Begins([cmd |-> "wrap", step |-> "backup",
               new |-> WrapAllServers(files, config, Cwd, opts)])
    /\ UNCHANGED <<files, userVars, updated>>

(* Mutant: a backup that is there already is kept.                         *)
BackupOnce ==
  /\ Step("wrap", "backup")
  /\ backup' = IF Whole(backup) THEN backup ELSE Torn
  /\ job' = [job EXCEPT !.step = IF Whole(backup) THEN "write" ELSE "copy"]
  /\ UNCHANGED <<files, config, torn, original, found, updated, acts>>

BackupTruncate ==
  /\ Step("wrap", "backup")
  /\ backup' = Torn /\ job' = [job EXCEPT !.step = "copy"]
  /\ UNCHANGED <<files, config, torn, original, found, updated, acts>>

BackupCopy ==
  /\ Step("wrap", "copy")
  /\ backup' = config /\ job' = [job EXCEPT !.step = "write"]
  /\ UNCHANGED <<files, config, torn, original, found, updated, acts>>

(* fs::write of wrap and of unwrap: truncated first, then filled.          *)
Truncate ==
  /\ job.cmd \in {"wrap", "unwrap"} /\ job.step = "write"
  /\ config' = Torn /\ torn' = job.cmd
  /\ found' = IF job.cmd = "wrap" THEN Embedded(config, job.new) ELSE Nowhere(config)
  /\ job' = [job EXCEPT !.step = "fill"]
  /\ UNCHANGED <<files, backup, original, updated, acts>>

Fill ==
  /\ job.cmd \in {"wrap", "unwrap"} /\ job.step = "fill"
  /\ config' = job.new /\ torn' = "" /\ job' = Idle
  /\ UNCHANGED <<files, backup, original, found, updated, acts>>

(* unwrap writes even if nothing was wrapped, and keeps no backup.         *)
UnwrapStart ==
  /\ Whole(config)
  /\ Begins([cmd |-> "unwrap", step |-> "write", new |-> UnwrapAll(config)])
  /\ UNCHANGED <<files, userVars, updated>>

(* The user's remedy for a wrap that was killed.                           *)
Restore ==
  /\ job = Idle /\ config = Torn /\ torn = "wrap" /\ Whole(backup)
  /\ config' = backup /\ torn' = "" /\ found' = Nowhere(backup)
  /\ UNCHANGED <<files, backup, job, original, updated, acts>>

AddServer ==
  /\ job = Idle /\ Whole(config) /\ Acts
  /\ \E s \in DOMAIN NewServers \ DOMAIN config :
       /\ config' = With(config, s, NewServers[s])
       /\ original' = With(original, s, UnwrapServer(NewServers[s]))
       /\ found' = With(found, s, {})
  /\ UNCHANGED <<files, backup, job, torn, updated>>

-----------------------------------------------------------------------------
(* armor.json files and profiles                                           *)

(* A user writes or deletes a file, at any time.                           *)
EditFile ==
  /\ Acts
  /\ \E f \in DOMAIN UserFiles : \E c \in UserFiles[f] :
       /\ Content(files, f) # c /\ Put(f, c)
       /\ updated' = (updated /\ f[1] # Community)
  /\ UNCHANGED <<userVars, job>>

(* init: no --force, no overwriting.  Existence is checked before any      *)
(* question is asked.                                                      *)
InitStart ==
  \E force \in BOOLEAN, new \in Templates :
    /\ force \/ ~Exists(files, Target)
    /\ Begins([cmd |-> "init", step |-> "truncate", dest |-> Target, new |-> new])
    /\ UNCHANGED <<files, userVars, updated>>

(* profiles add: the draft is read and checked, then copied.               *)
AddStart ==
  /\ PassesSchema(Content(files, Draft))
  /\ Begins([cmd |-> "add", step |-> "truncate", dest |-> CommunityProfile(Draft[2])])
  /\ UNCHANGED <<files, userVars, updated>>

FileTruncate ==
  /\ job.cmd \in {"init", "add", "update"} /\ job.step = "truncate"
  /\ Put(job.dest, Torn) /\ job' = [job EXCEPT !.step = "fill"]
  /\ updated' = (updated /\ job.cmd = "init")
  /\ UNCHANGED <<userVars, acts>>

InitFill ==
  /\ Step("init", "fill")
  /\ Put(job.dest, job.new) /\ job' = Idle
  /\ UNCHANGED <<userVars, updated, acts>>

(* fs::copy; a draft that is gone by then leaves an empty profile.         *)
AddFill ==
  /\ Step("add", "fill")
  /\ Put(job.dest, IF Exists(files, Draft) THEN files[Draft] ELSE Torn) /\ job' = Idle
  /\ UNCHANGED <<userVars, updated, acts>>

-----------------------------------------------------------------------------
(* profiles update: the profiles of the index one after the other; the     *)
(* first that fails ends it.                                               *)

Fetch(i) == [cmd |-> "update", step |-> "fetch", i |-> i]

UpdateStart ==
  /\ Begins(Fetch(1)) /\ UNCHANGED <<files, userVars, updated>>

(* verify_sha256, if the index has a checksum.                             *)
FetchArrives ==
  /\ Step("update", "fetch") /\ job.i <= Len(Index)
  /\ \E content \in {Published[Index[job.i].name]} \cup Garbled :
       /\ ~Index[job.i].sha \/ content = Published[Index[job.i].name]
       /\ job' = [cmd |-> "update", step |-> "truncate", i |-> job.i, new |-> content,
                  dest |-> CommunityProfile(Index[job.i].name)]
  /\ UNCHANGED <<files, userVars, updated, acts>>

(* Mutant: the next profile is tried.                                      *)
FetchSkips ==
  /\ Step("update", "fetch") /\ job.i <= Len(Index)
  /\ job' = Fetch(job.i + 1)
  /\ UNCHANGED <<files, userVars, updated, acts>>

(* No answer, or one with another checksum.                                *)
FetchFails ==
  /\ Step("update", "fetch") /\ job.i <= Len(Index)
  /\ job' = Idle
  /\ UNCHANGED <<files, userVars, updated, acts>>

UpdateFill ==
  /\ Step("update", "fill")
  /\ Put(job.dest, job.new) /\ job' = Fetch(job.i + 1)
  /\ UNCHANGED <<userVars, updated, acts>>

UpdateDone ==
  /\ Step("update", "fetch") /\ job.i = Len(Index) + 1
  /\ updated' = TRUE /\ job' = Idle
  /\ UNCHANGED <<files, userVars, acts>>

-----------------------------------------------------------------------------
(* A command is killed between two of its steps.                           *)
Crash ==
  /\ job # Idle /\ job' = Idle
  /\ UNCHANGED <<files, userVars, updated, acts>>

Next ==
  \/ WrapStart \/ BackupTruncate \/ BackupCopy \/ UnwrapStart \/ Truncate \/ Fill
  \/ Restore \/ AddServer \/ EditFile \/ InitStart \/ AddStart \/ FileTruncate
  \/ InitFill \/ AddFill \/ UpdateStart \/ FetchArrives \/ FetchFails \/ UpdateFill
  \/ UpdateDone \/ Crash

Spec == Init /\ [][Next]_vars

-----------------------------------------------------------------------------
(* Properties                                                              *)

Launched(s, platform) == Launch(files, config[s], HostCwd, platform)

(* An entry as its user put it there.                                      *)
Written(s) ==
  UNION {IF s \in DOMAIN servers THEN {servers[s]} ELSE {} : servers \in {Servers, NewServers}}

(* --armor spelled as wrap spells it.                                      *)
AsWrapSpells(args) ==
  \A i \in 1..First(args, Separator) - 1 :
    Leads(args[i], ArmorOption) => args[i] = Word("--armor")

(* After any sequence of wrap, re-wrap, unwrap, kills and restores, every  *)
(* tool can be had back as its user wrote it: from the configuration by    *)
(* unwrap, or, where wrap was killed half way through its write, from the  *)
(* backup (persist_wrap_changes: the backup is complete before the first   *)
(* write; build_wrapped_args and extract_original_command agree on what    *)
(* the first "--" separates).                                              *)
OriginalRecoverable ==
  /\ Whole(config) => Recovered(config) = original
  /\ config = Torn /\ torn = "wrap" => Whole(backup) /\ Recovered(backup) = original

(* The broker is started from every entry that wrap made, and whatever is  *)
(* started from an entry runs the user's command with the user's arguments *)
(* and no other, under any sandbox, also when they have "--" or the        *)
(* broker's own options among them (clap's last = true and Seatbelt's      *)
(* command line against build_wrapped_args).                               *)
LaunchRunsOriginal ==
  Whole(config) => \A s \in DOMAIN config, platform \in Platforms :
    LET launch == Launched(s, platform)
    IN  /\ config[s] \notin Written(s) \cup {original[s]} => launch.ran # {}
        /\ \A ran \in launch.ran : ran.ok =>
             \E c \in original[s].command : Executed(ran.process) = <<c>> \o original[s].args

(* The manifest that wrap found for a tool is the only one it ever runs    *)
(* under, wherever the host starts it: never one found by a search, never  *)
(* the built-in fallback.  If the tool does not start, the file has been   *)
(* removed, or is one that `validate` rejects or warns of                  *)
(* (resolve_manifest, check_min_spec and advisory_warnings).               *)
WrapDecides ==
  Whole(config) => \A s \in DOMAIN config, platform \in Platforms :
    \A f \in found[s] : \A ran \in Launched(s, platform).ran :
      IF ran.ok THEN ran.from = {f}
      ELSE ~Valid(Content(files, f)) \/ WarnsOfSpec(files[f])

(* `status` calls armored exactly what the host starts through the broker. *)
(* Where wrap embedded a manifest, or where whoever wrote the entry gave   *)
(* none but as "--armor" and a word, and gave the tool no such argument,   *)
(* it shows the manifest the broker will be given, and, unless a --profile *)
(* is embedded, the profile the tool will run in; and where it says that   *)
(* the second layer is available, every tool that does not opt out is      *)
(* started with its hook in place, and the banner says so too              *)
(* (extract_armor_path_from_wrapped takes the first "--armor", whoever     *)
(* wrote it, and no other spelling of it that RunArgs takes).              *)
StatusHonest ==
  Whole(config) => \A s \in DOMAIN config, platform \in Platforms :
    LET row == StatusRow(files, config[s], Cwd)
        launch == Launched(s, platform)
        Given(args) ==
          /\ row.armor = args.armor
          /\ args.profile = {} /\ found[s] # {} =>
               \A ran \in launch.ran : ran.ok => row.profile = {ran.manifest.profile}
    IN  /\ row.armored <=> launch.by = "broker" /\ ~config[s].url
        /\ row.armored => \A args \in ParseRunArgs(config[s].args) :
             /\ \/ found[s] # {}
                \/ /\ AsWrapSpells(config[s].args)
                   /\ ~Contains(original[s].args, Word("--armor"))
                => Given(args)
             /\ Layer2Available(platform) /\ ~args.noOsSandbox =>
                  \A ran \in launch.ran : ran.ok =>
                    Hooked(ran.process) /\ "system" \in ran.process.banner

(* While an update was the last to touch the profiles, every profile of    *)
(* the index is that of the release if it has a checksum, and there is     *)
(* something if not; and what does not match its checksum is never         *)
(* installed, whatever fails or is killed (download_all_profiles,          *)
(* verify_sha256).                                                         *)
UpdateComplete ==
  \A i \in DOMAIN Index :
    LET content == Content(files, CommunityProfile(Index[i].name))
    IN  /\ updated => content.kind = "json"
        /\ Index[i].sha => content \notin Garbled /\ (updated => content = Published[Index[i].name])

(* What a tool runs under is the file as it is now with two exceptions:    *)
(* the profile that wrap embedded, unless the file is locked, and          *)
(* deny_local, which no tool in the browser profile has whoever chose that *)
(* profile; and no file that asks for a newer spec is run under            *)
(* (run: check_min_spec, apply_profile_override, apply_browser_defaults,   *)
(* in this order).                                                         *)
EffectiveManifest ==
  Whole(config) => \A s \in DOMAIN config, platform \in Platforms :
    IsBroker(config[s]) => \A ran \in Launched(s, platform).ran : ran.ok =>
      LET asked == UNION {args.profile : args \in ParseRunArgs(config[s].args)}
          m == ran.manifest
      IN  /\ m.profile \in IF ran.file.locked \/ asked \cap Profiles = {}
                            THEN {ran.file.profile} ELSE asked
          /\ m.denyLocal = (m.profile # "browser" /\ ran.file.denyLocal)
          /\ m = [ran.file EXCEPT !.profile = m.profile, !.denyLocal = m.denyLocal]
          /\ \A v \in ran.file.minSpec : v # <<>> /\ (v[1] < 1 \/ v = <<1, 0>>)
=============================================================================
