------------------------------ MODULE Sandbox ------------------------------
(***************************************************************************)
(* What the process sandbox measures before a worker is let write          *)
(* (code/sandbox.py) and who is offered the write mode on the strength of  *)
(* it (code/registry.py, code/adapters/opencode_write.py).                 *)
(*                                                                         *)
(* A host is what its mechanism really does with a confined process; the   *)
(* code cannot see that, only the reports of probes, which may not start,  *)
(* may time out, or may talk about a process that has meanwhile exited.    *)
(* Each verdict is computed from the reports as the code computes it, so   *)
(* that the property can relate it to the truth.  The verdicts are cached  *)
(* for the life of the server; a host does not change here meanwhile.      *)
(***************************************************************************)
EXTENDS FiniteSets

MACOS == "sandbox-exec"
LINUX == "bubblewrap"
NoMechanism == "none"

NETWORK_MODES == {"none", "loopback", "internet"}

(* The one mechanism that can name a port, or an IP destination, alone. *)
GRANTS_LOOPBACK == {MACOS}
GRANTS_INTERNET == {MACOS}

Probes == {"inside", "outside", "signal", "ip", "unix"}

(***************************************************************************)
(* exe: how `which` finds the mechanism's executable; started: the probes  *)
(* whose confined interpreter gets to say RAN within its time; the other   *)
(* fields say what the mechanism lets a confined process do, and when the  *)
(* process the signal is meant for happens to exit.                        *)
(***************************************************************************)
Hosts ==
  [system : {"Darwin", "Linux", "Windows"}, exe : {"absent", "relative", "absolute"},
   started : SUBSET Probes, inside : BOOLEAN, outside : BOOLEAN,
   signal : {"sent", "denied", "hidden"}, victim : {"stays", "gone_before", "gone_during"},
   ip : BOOLEAN, unix : BOOLEAN]

(* What a grant of one loopback port lets through on a host: that port,
   another one, the same port on the host's routable address if it has one
   and a listener could be bound there. *)
Loopbacks ==
  [started : BOOLEAN, granted : BOOLEAN, other : BOOLEAN,
   address : BOOLEAN, binds : BOOLEAN, elsewhere : BOOLEAN]

(* The directories a worker may be asked to be confined to: a good one, and
   one of each kind wrap refuses. *)
Trees == {"clean", "missing", "linked", "holds_binary", "masked"}

mechanism(h) ==
  CASE h.system = "Darwin" /\ h.exe # "absent" -> MACOS
    [] h.system = "Linux" /\ h.exe # "absent" -> LINUX
    [] OTHER -> NoMechanism

binary_for(h) == mechanism(h) # NoMechanism /\ h.exe = "absolute"

loopback_expressible(h) == mechanism(h) \in GRANTS_LOOPBACK
internet_expressible(h) == mechanism(h) \in GRANTS_INTERNET

(* A file of the worktree with a second name is outside it too. *)
multiply_linked(worktree) == worktree = "linked"

(* Bubblewrap hides directories by covering them. *)
maskable(worktree) == worktree # "masked"

linux_args(worktree, network) == network = "none" /\ maskable(worktree)

(* The refusals of wrap; the mechanism's own arguments are the last of them. *)
wrap(h, worktree, network, port) ==
  /\ worktree # "missing"
  /\ network \in NETWORK_MODES
  /\ port <=> network = "loopback"
  /\ network = "loopback" => loopback_expressible(h)
  /\ network = "internet" => internet_expressible(h)
  /\ ~multiply_linked(worktree)
  /\ binary_for(h)
  /\ worktree # "holds_binary"
  /\ mechanism(h) = LINUX => linux_args(worktree, network)

-----------------------------------------------------------------------------
(* Reports: "unknown" is a probe that never ran, and is not a refusal. *)
Report(started, let) == IF ~started THEN "unknown" ELSE IF let THEN "yes" ELSE "no"

probe_write(h, where) ==
  Report(where \in h.started, IF where = "inside" THEN h.inside ELSE h.outside)

probe_connect(h, what) ==
  Report(what \in h.started, IF what = "ip" THEN h.ip ELSE h.unix)

(* What the confined process says of the signal it sent.  Once the victim has
   exited its number may be another process's, of this user or not, or nobody's. *)
SignalReports(h) ==
  IF h.victim = "stays"
  THEN {CASE h.signal = "sent" -> "SENT" [] h.signal = "denied" -> "DENIED" [] OTHER -> "GONE"}
  ELSE IF h.signal = "sent" THEN {"SENT", "DENIED", "GONE"} ELSE {"DENIED", "GONE"}

(* The mutant trusts a refusal without looking at the victim again. *)
probe_signal_heedless(h, report) == (* (mutant) *)
  h.victim # "gone_before" /\ "signal" \in h.started /\ report \in {"DENIED", "GONE"}

probe_signal(h, report) ==
  /\ h.victim # "gone_before"
  /\ "signal" \in h.started
  /\ report \in {"DENIED", "GONE"}
  /\ h.victim = "stays"

(* wrap comes first: a host whose mechanism cannot be launched is not tested. *)
verify(h, report) ==
  /\ wrap(h, "clean", "none", FALSE)
  /\ probe_write(h, "inside") = "yes"
  /\ probe_write(h, "outside") = "no"
  /\ probe_signal(h, report)

holds(h, report) == verify(h, report)

verify_internet(h) ==
  /\ wrap(h, "clean", "internet", FALSE)
  /\ probe_connect(h, "ip") = "yes"
  /\ probe_connect(h, "unix") = "no"

internet_available(h) == internet_expressible(h) /\ verify_internet(h)

(* An address that no second listener could be bound on stays unmeasured. *)
verify_loopback(n) ==
  /\ Report(n.started, n.granted) = "yes"
  /\ Report(n.started, n.other) = "no"
  /\ n.address => Report(n.started /\ n.binds, n.elsewhere) = "no"

loopback_available(h, n) ==
  loopback_expressible(h) /\ wrap(h, "clean", "loopback", TRUE) /\ verify_loopback(n)

-----------------------------------------------------------------------------
Runtimes == {"antigravity", "claude", "codex", "copilot", "opencode"}

(* Codex confines itself; the gated ones lean on this module's sandbox. *)
RUNTIME_CAPABILITIES(r) == IF r = "codex" THEN {"consultation", "patch", "isolated_write"}
                           ELSE {"consultation", "patch"}
SANDBOX_GATED_WRITE == {"claude", "opencode"}
WRITE_ADAPTERS == {"codex", "opencode"}

runtime_capabilities(h, report, r) ==
  IF /\ r \in SANDBOX_GATED_WRITE \cap WRITE_ADAPTERS
     /\ holds(h, report)
     /\ internet_available(h)
  THEN RUNTIME_CAPABILITIES(r) \cup {"isolated_write"}
  ELSE RUNTIME_CAPABILITIES(r)

code_adapter_for(h, report, r) ==
  "isolated_write" \in runtime_capabilities(h, report, r) /\ r \in WRITE_ADAPTERS

(* The adapter asks again, and confines the worker's own worktree. *)
execute(h, report, worktree) ==
  holds(h, report) /\ internet_available(h) /\ wrap(h, worktree, "internet", FALSE)

Launched(h, report, r, worktree) ==
  /\ code_adapter_for(h, report, r)
  /\ r = "opencode" => execute(h, report, worktree)

(* What the worker of a worktree may do is what the sandbox promises of it. *)
Bounded(h, worktree) ==
  /\ ~h.outside /\ h.signal # "sent" /\ ~h.unix
  /\ worktree \in {"clean", "masked"}

WorkersAreBounded ==
  \A h \in Hosts : \A report \in SignalReports(h), r \in SANDBOX_GATED_WRITE, worktree \in Trees :
    Launched(h, report, r, worktree) => Bounded(h, worktree)

LoopbackIsOnePort ==
  \A h \in {g \in Hosts : g.started = Probes /\ g.victim = "stays"}, n \in Loopbacks :
    loopback_available(h, n) =>
      n.granted /\ ~n.other /\ (n.address => ~n.elsewhere)

(* A runtime that leans on the sandbox writes only on a host whose mechanism
   really bounds it -- writes, signals, sockets -- whatever the probes said or
   failed to say; and a loopback grant is offered only where it really is one
   port of one interface (code/sandbox.py, verify and its probes).  Codex, which
   brings a sandbox of its own, is not held to this host's. *)
BoundsAreMeasured == WorkersAreBounded /\ LoopbackIsOnePort
=============================================================================
