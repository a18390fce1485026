----------------------------- MODULE HostConfig -----------------------------
(***************************************************************************)
(* The entries of a host's MCP configuration: how `wrap` and `unwrap`      *)
(* rewrite one, how `status` reads one, and what the host starts from one  *)
(* (crates/mcparmor-broker/src/broker.rs and the command line of cli.rs).  *)
(*                                                                         *)
(* A command, an option, an argument and a path are all a pair of a        *)
(* directory and a name, as a file is; a word that is no absolute path has *)
(* the directory "".  An option with its value in the same word, as in     *)
(* "--armor=x" or "-ax", is the pair of its name and of the value.  An     *)
(* entry's args are its strings: JSON values of other types are filtered   *)
(* out by the code.                                                        *)
(***************************************************************************)
EXTENDS Startup, SequencesExt

CONSTANTS
  Community,  \* the directory of the community profiles
  Dashed      \* the names that begin with a hyphen

(* The options of `mcparmor run`, by their spellings.                      *)
ArmorOption == {"--armor", "-a"}
ProfileOption == {"--profile"}
AuditLogOption == {"--audit-log"}
ValueOptions == {ArmorOption, ProfileOption, AuditLogOption}
Flags == {{"--no-os-sandbox"}, {"--no-log-params"}, {"--strict"}, {"--verbose", "-v"},
          {"--no-audit"}, {"--no-annotate"}}
ValueNames == UNION ValueOptions
FlagNames == UNION Flags

ASSUME WordsAssumption ==
  /\ {"mcparmor", "run", "armor.json"} \subseteq Name \ Dashed
  /\ {"--"} \cup ValueNames \cup FlagNames \subseteq Dashed
  /\ Dashed \subseteq Name /\ Dashed \cap (Dir \cup {""}) = {}

Word(name) == <<"", name>>
Broker == Word("mcparmor")
Separator == Word("--")

(* url: the entry has a "url", or the type "http".                         *)
Stdio(command, args) == [command |-> {command}, args |-> args, url |-> FALSE]
Http == [command |-> {}, args |-> <<>>, url |-> TRUE]

Rest(s, i) == SubSeq(s, i, Len(s))
First(s, word) == SelectInSeq(s, LAMBDA w : w = word)
After(s, word) ==
  LET i == First(s, word) IN IF i \in 1..Len(s) - 1 THEN {s[i + 1]} ELSE {}

-----------------------------------------------------------------------------
(* wrap                                                                    *)

(* --profile is any word or none; --backup is always on, --scope does      *)
(* nothing, and --dry-run writes nothing.                                  *)
WrapArgs == [rewrap : BOOLEAN, profile : SUBSET Name, noArmorPath : BOOLEAN]

CommunityProfile(name) == <<Community, name>>

(* Beside the binary, in the directory above it, in the user's directory,  *)
(* among the community profiles.  The directory of a bare command is "",   *)
(* which makes a relative path.                                            *)
DiscoverArmor(files, name, command, cwd) ==
  LET dir == command[1]
      near == IF dir = "" THEN <<Word("armor.json")>>
              ELSE <<ArmorJson(dir)>> \o
                   (IF Parent[dir] = "" THEN <<>> ELSE <<ArmorJson(Parent[dir])>>)
      chain == near \o <<ArmorJson(cwd), CommunityProfile(name)>>
      i == SelectInSeq(chain, LAMBDA file : Exists(files, InDir(file, cwd)))
  IN  IF i = 0 THEN {} ELSE {chain[i]}

ResolveArmorSource(files, name, command, cwd, opts) ==
  IF opts.noArmorPath THEN {} ELSE DiscoverArmor(files, name, command, cwd)

Option(name, value) ==
  IF value = {} THEN <<>> ELSE <<Word(name), CHOOSE v \in value : TRUE>>

BuildWrappedArgs(armor, profile, command, args) ==
  <<Word("run")>> \o Option("--armor", armor)
    \o Option("--profile", {Word(p) : p \in profile})
    \o <<Separator, command>> \o args

(* Mutant: the last separator counts.                                      *)
ExtractAfterLast(args) ==
  LET i == SelectLastInSeq(args, LAMBDA w : w = Separator)
  IN  IF i \in 1..Len(args) - 1
      THEN {[command |-> args[i + 1], args |-> Rest(args, i + 2)]} ELSE {}

(* The command and arguments behind the first "--", or none.               *)
ExtractOriginal(args) ==
  LET i == First(args, Separator)
  IN  IF i \in 1..Len(args) - 1
      THEN {[command |-> args[i + 1], args |-> Rest(args, i + 2)]} ELSE {}

IsBroker(entry) == entry.command = {Broker}

(* What wrap_single_server wraps: nothing in an entry that is wrapped      *)
(* already (unless --rewrap), that has no command, or that cannot be       *)
(* unwound.                                                                *)
Wrappable(entry, opts) ==
  IF IsBroker(entry) THEN IF opts.rewrap THEN ExtractOriginal(entry.args) ELSE {}
  ELSE {[command |-> c, args |-> entry.args] : c \in entry.command}

WrapSingleServer(files, name, entry, cwd, opts) ==
  IF Wrappable(entry, opts) = {} THEN entry
  ELSE LET tool == CHOOSE t \in Wrappable(entry, opts) : TRUE
           armor == ResolveArmorSource(files, name, tool.command, cwd, opts)
       IN  [entry EXCEPT !.command = {Broker},
              !.args = BuildWrappedArgs(armor, opts.profile, tool.command, tool.args)]

WrapAllServers(files, servers, cwd, opts) ==
  [name \in DOMAIN servers |-> WrapSingleServer(files, name, servers[name], cwd, opts)]

(* At least one outcome is Wrapped or Rewrapped.                           *)
Changes(servers, opts) == \E name \in DOMAIN servers : Wrappable(servers[name], opts) # {}

-----------------------------------------------------------------------------
(* unwrap                                                                  *)

IsWrappedEntry(entry) == IsBroker(entry) /\ Contains(entry.args, Word("run"))

UnwrapServer(entry) ==
  IF ~IsWrappedEntry(entry) \/ ExtractOriginal(entry.args) = {} THEN entry
  ELSE LET tool == CHOOSE t \in ExtractOriginal(entry.args) : TRUE
       IN  [entry EXCEPT !.command = {tool.command}, !.args = tool.args]

UnwrapAll(servers) == [name \in DOMAIN servers |-> UnwrapServer(servers[name])]

-----------------------------------------------------------------------------
(* What users write into a configuration                                   *)

PlainText == (Dir \cup {""}) \X Name
Text == PlainText \cup (Dashed \X PlainText)

(* A command that is no word of the broker's or of the sandbox's own.      *)
Plain(command) ==
  command \in PlainText /\ command \notin {Broker, Word("--armor"), SandboxExec}

(* An entry that starts the broker by hand is a `mcparmor run` of any      *)
(* words, whether clap accepts them or not, if there is a tool behind a    *)
(* "--"; and the broker is not started twice.                              *)
IsEntry(entry) ==
  /\ entry \in [command : SUBSET Text, args : Seq(Text), url : BOOLEAN]
  /\ \A c, d \in entry.command : c = d
  /\ \A tool \in Wrappable(entry, [rewrap |-> TRUE]) : Plain(tool.command)
  /\ IsBroker(entry) /\ ExtractOriginal(entry.args) # {} => entry.args[1] = Word("run")

-----------------------------------------------------------------------------
(* status                                                                  *)

(* Mutant: the last --armor is shown.                                      *)
LastArmorPath(args) ==
  LET i == SelectLastInSeq(args, LAMBDA w : w = Word("--armor"))
  IN  IF i \in 1..Len(args) - 1 THEN {args[i + 1]} ELSE {}

ExtractArmorPath(args) == After(args, Word("--armor"))

(* The profile the file has now, if it loads; nothing of a --profile.      *)
ExtractProfile(files, armor, cwd) ==
  {Content(files, InDir(f, cwd)).profile : f \in {g \in armor : Loads(Content(files, InDir(g, cwd)))}}

(* read_tool_statuses                                                      *)
ToolStatus(files, entry, cwd) ==
  LET armor == ExtractArmorPath(entry.args)
  IN  [wrapped |-> IsBroker(entry), http |-> entry.url, armor |-> armor,
       profile |-> ExtractProfile(files, armor, cwd)]

(* format_status_row: an entry with a URL is shown as such, whatever its   *)
(* command.                                                                *)
StatusRow(files, entry, cwd) ==
  LET status == ToolStatus(files, entry, cwd)
  IN  IF status.wrapped /\ ~status.http
      THEN [armored |-> TRUE, armor |-> status.armor, profile |-> status.profile]
      ELSE [armored |-> FALSE, armor |-> {}, profile |-> {}]

-----------------------------------------------------------------------------
(* launch                                                                  *)

(* What a word begins with, as clap sees it: an option's name or a value.  *)
Lead(word) == IF word[1] = "" THEN word[2] ELSE word[1]
Leads(word, option) == Lead(word) \in option

(* "--armor", "-a", ...: the value is the next word.                       *)
TakesNext(word) == word[1] = "" /\ word[2] \in ValueNames
HasValue(word) == word[1] \in ValueNames
IsFlag(word) == word[1] = "" /\ word[2] \in FlagNames

(* clap takes the options of RunArgs only, each of them once, with a value *)
(* that begins with no hyphen where one is due, and no word besides.       *)
ClapAccepts(options) ==
  /\ \A i \in 1..Len(options) :
       IF Leads(options[i], Dashed)
       THEN \/ IsFlag(options[i]) \/ HasValue(options[i])
            \/ TakesNext(options[i]) /\ i < Len(options) /\ ~Leads(options[i + 1], Dashed)
       ELSE i > 1 /\ TakesNext(options[i - 1])
  /\ \A i \in 1..Len(options) : \A j \in 1..i - 1, option \in ValueOptions \cup Flags :
       ~(Leads(options[i], option) /\ Leads(options[j], option))

(* The value of an option, in its own word or in the next, or none.        *)
ValueOf(options, option) ==
  {options[i][2] : i \in {k \in 1..Len(options) : options[k][1] \in option}}
  \cup {options[i + 1] : i \in {k \in 1..Len(options) - 1 :
                                 options[k][1] = "" /\ options[k][2] \in option}}

(* clap on `mcparmor run`: options up to the first "--", the tool's        *)
(* command behind it (last = true, required = true).                       *)
ParseRunArgs(args) ==
  LET i == First(args, Separator)
      options == SubSeq(args, 2, i - 1)
  IN  IF \/ args = <<>> \/ args[1] # Word("run") \/ i \notin 1..Len(args) - 1
         \/ ~ClapAccepts(options)
      THEN {}
      ELSE {[armor |-> ValueOf(options, ArmorOption),
             profile |-> {w[2] : w \in ValueOf(options, ProfileOption)},
             noOsSandbox |-> Contains(options, Word("--no-os-sandbox")),
             noAudit |-> Contains(options, Word("--no-audit")),
             auditLog |-> ValueOf(options, AuditLogOption),
             command |-> Rest(args, i + 1)]}

(* What a host in directory cwd starts: the tool, or the broker with it.   *)
Launch(files, entry, cwd, platform) ==
  IF IsBroker(entry)
  THEN [by |-> "broker",
        ran |-> {Run(files, args, cwd, platform) : args \in ParseRunArgs(entry.args)}]
  ELSE [by |-> "host",
        ran |-> {[ok |-> TRUE, process |-> [argv |-> <<c>> \o entry.args, landlock |-> FALSE]]
                   : c \in entry.command}]
=============================================================================
