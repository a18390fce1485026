------------------------------ MODULE Sandbox ------------------------------
(***************************************************************************)
(* The providers of the second layer, crates/mcparmor-broker/src/sandbox/, *)
(* as the rest of the broker sees them: which one is selected, what it     *)
(* says it enforces, and how a tool is started under it.                   *)
(*                                                                         *)
(* A platform is an operating system, its kernel's version (<<>> if uname  *)
(* gives none that parses) and whether sandbox-exec is there.  The words   *)
(* of a command line are pairs, as in HostConfig.                          *)
(***************************************************************************)
EXTENDS Integers, Sequences

KernelVersion == {<<>>} \cup (Nat \X Nat \X Nat)
Platform ==
  [os : {"linux", "macos", "windows"}, kernel : KernelVersion, sandboxExec : BOOLEAN]

AtLeast(v, w) ==
  v = w \/ \E i \in 1..3 : v[i] > w[i] /\ \A j \in 1..i - 1 : v[j] = w[j]
HasSeccomp(kernel) == AtLeast(kernel, <<3, 5, 0>>)
HasLandlockFs(kernel) == AtLeast(kernel, <<5, 13, 0>>)
HasLandlockTcp(kernel) == AtLeast(kernel, <<6, 7, 0>>)

(* The best provider there is; none when the user asks for none.           *)
SelectSandbox(noOsSandbox, platform) ==
  IF noOsSandbox THEN "noop"
  ELSE IF platform.os = "linux" /\ platform.kernel # <<>> /\ HasSeccomp(platform.kernel)
  THEN "linux"
  ELSE IF platform.os = "macos" /\ platform.sandboxExec THEN "macos"
  ELSE "noop"

(* What is claimed, in `status`, in `validate` and in the banner of `run`. *)
SeatbeltSummary == {"filesystem", "spawn", "port", "hostname"}
LinuxSummary(kernel) ==
  (IF HasLandlockFs(kernel) THEN {"filesystem"} ELSE {})
    \cup (IF HasLandlockTcp(kernel) THEN {"port"} ELSE {})
NoopSummary == {}
EnforcementSummary(sandbox, platform) ==
  CASE sandbox = "macos" -> SeatbeltSummary
    [] sandbox = "linux" -> LinuxSummary(platform.kernel)
    [] OTHER -> NoopSummary

(* current_platform_line                                                   *)
Layer2Available(platform) ==
  EnforcementSummary(SelectSandbox(FALSE, platform), platform) \cap {"filesystem", "spawn"} # {}

(* apply: Seatbelt wraps the command, the others leave it as it is.        *)
SandboxExec == <<"", "sandbox-exec">>
Sbpl(manifest) == <<"sbpl", manifest.profile>>
Apply(sandbox, manifest, command) ==
  IF sandbox = "macos"
  THEN <<SandboxExec, <<"", "-p">>, Sbpl(manifest)>> \o command ELSE command

(* build_layer_description                                                 *)
Layers(summary) == {"protocol"} \cup (IF summary # {} THEN {"system"} ELSE {})

(* The hook for Landlock is put into the child whatever the provider says. *)
ConfigurePreExec(noOsSandbox, platform) == platform.os = "linux" /\ ~noOsSandbox

(* run_proxy up to the spawn.                                              *)
SpawnToolProcess(manifest, command, noOsSandbox, platform) ==
  LET sandbox == SelectSandbox(noOsSandbox, platform)
  IN  [argv |-> Apply(sandbox, manifest, command),
       landlock |-> ConfigurePreExec(noOsSandbox, platform),
       banner |-> Layers(EnforcementSummary(sandbox, platform))]

-----------------------------------------------------------------------------
(* What the operating system makes of it.                                  *)
Executed(process) ==
  IF process.argv[1] = SandboxExec
  THEN SubSeq(process.argv, 4, Len(process.argv)) ELSE process.argv

(* The mechanism is asked for; whether Landlock then restricts the child   *)
(* is another matter: the hook lets the tool start if it cannot.           *)
Hooked(process) == process.argv[1] = SandboxExec \/ process.landlock
=============================================================================
