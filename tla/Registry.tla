------------------------------ MODULE Registry ------------------------------
(***************************************************************************)
(* Servers that register with consul (grpc/discovery/register/consul.go,   *)
(* as RunGrpc and StartHTTP call it) and the agent as far as they and the  *)
(* resolvers see it: a catalogue of services with a check each that turns  *)
(* critical when it is not updated within its TTL.                         *)
(***************************************************************************)
EXTENDS Naturals, FiniteSets, Sequences

CONSTANTS
  Servers,      \* processes that serve one address each
  Stable,       \* bound: those that serve from the start and throughout
  MaxTrouble    \* bound on what goes wrong or is stopped: failed calls, crashes,
                \* broken connections, signals, cancelled callers

ASSUME RegistryAssumption == IsFiniteSet(Servers) /\ Stable \subseteq Servers /\ MaxTrouble \in Nat

VARIABLES
  proc,     \* proc[s]: how far the entry point of s is
  sig,      \* the servers that were told to stop
  beat,     \* the servers whose goroutine updates the TTL
  entry,    \* external: the services in the catalogue
  check,    \* external, check[s]: the check of the service s
  trouble   \* what went wrong or was stopped so far

serverVars == <<proc, sig, beat, entry, check>>
registryVars == <<serverVars, trouble>>

RegistryTypeOK ==
  /\ proc \in [Servers -> {"off", "registered", "serving", "leaving", "over"}]
  /\ check \in [Servers -> {"none", "passing", "critical"}]
  /\ sig \subseteq Servers /\ beat \subseteq Servers /\ entry \subseteq Servers
  /\ trouble \in 0..MaxTrouble

RegistryInit ==
  /\ proc = [s \in Servers |-> IF s \in Stable THEN "serving" ELSE "off"]
  /\ check = [s \in Servers |-> IF s \in Stable THEN "passing" ELSE "none"]
  /\ sig = {} /\ beat = Stable /\ entry = Stable
  /\ trouble = 0

\* Health().Service with passingOnly: the instances none of whose checks is
\* critical; one without a check passes.
Listed == {s \in entry : check[s] # "critical"}

\* Something goes wrong or is stopped, as long as the bound allows.
Fails == trouble < MaxTrouble /\ trouble' = trouble + 1

-----------------------------------------------------------------------------
(* Register.                                                               *)

\* Register's first call; when it fails the entry point returns.
ServiceRegister(s) ==
  /\ proc[s] = "off"
  /\ \/ /\ proc' = [proc EXCEPT ![s] = "registered"]
        /\ entry' = entry \cup {s}
        /\ UNCHANGED trouble
     \/ /\ Fails
        /\ proc' = [proc EXCEPT ![s] = "over"]
        /\ UNCHANGED entry
  /\ UNCHANGED <<sig, beat, check>>

\* Its second call, with which the goroutine starts; when it fails the entry
\* point returns and nobody calls UnRegister: the service stays, unchecked.
CheckRegister(s) ==
  /\ proc[s] = "registered"
  /\ \/ /\ proc' = [proc EXCEPT ![s] = "serving"]
        /\ check' = [check EXCEPT ![s] = "passing"]
        /\ beat' = beat \cup {s}
        /\ UNCHANGED trouble
     \/ /\ Fails
        /\ proc' = [proc EXCEPT ![s] = "over"]
        /\ UNCHANGED <<check, beat>>
  /\ UNCHANGED <<sig, entry>>

\* The goroutine's UpdateTTL, after which it waits for the ticker; the check
\* passes again, and it is an error when there is none.
UpdateTTL(s) ==
  /\ s \in beat /\ check[s] # "none"
  /\ check' = [check EXCEPT ![s] = "passing"]
  /\ UNCHANGED <<proc, sig, beat, entry, trouble>>

\* The goroutine finds the process stopping, or its context cancelled by UnRegister.
BeatEnds(s) ==
  /\ s \in beat /\ (s \in sig \/ proc[s] = "over")
  /\ beat' = beat \ {s}
  /\ UNCHANGED <<proc, sig, entry, check, trouble>>

\* The TTL, twice the interval, passes when the goroutine has ended, or when one
\* update failed and the next is slow.
Expire(s) ==
  /\ check[s] = "passing"
  /\ IF s \in beat THEN Fails ELSE UNCHANGED trouble
  /\ check' = [check EXCEPT ![s] = "critical"]
  /\ UNCHANGED <<proc, sig, beat, entry>>

-----------------------------------------------------------------------------
(* The end of a server.                                                    *)

Signal(s) ==
  /\ proc[s] \in {"registered", "serving"} /\ s \notin sig
  /\ Fails
  /\ sig' = sig \cup {s}
  /\ UNCHANGED <<proc, beat, entry, check>>

\* Serve returns, because of the signal or by an error of its own.
ServeReturns(s) ==
  /\ proc[s] = "serving"
  /\ IF s \in sig THEN UNCHANGED trouble ELSE Fails
  /\ proc' = [proc EXCEPT ![s] = "leaving"]
  /\ UNCHANGED <<sig, beat, entry, check>>

\* UnRegister, which cancels the goroutine's context: ServiceDeregister, with
\* which consul drops the checks of the service, and when it succeeds
\* CheckDeregister, which finds none any more.
UnRegister(s) ==
  /\ proc[s] = "leaving"
  /\ proc' = [proc EXCEPT ![s] = "over"]
  /\ \/ /\ entry' = entry \ {s}
        /\ check' = [check EXCEPT ![s] = "none"]
        /\ UNCHANGED trouble
     \/ Fails /\ UNCHANGED <<entry, check>>
  /\ UNCHANGED <<sig, beat>>

\* The process is killed.
Crash(s) ==
  /\ proc[s] \notin {"off", "over"}
  /\ Fails
  /\ proc' = [proc EXCEPT ![s] = "over"]
  /\ beat' = beat \ {s}
  /\ UNCHANGED <<sig, entry, check>>

RegistryStep(s) ==
  \/ ServiceRegister(s) \/ CheckRegister(s) \/ UpdateTTL(s) \/ BeatEnds(s) \/ Expire(s)
  \/ Signal(s) \/ ServeReturns(s) \/ UnRegister(s) \/ Crash(s)

\* The select of the goroutine takes a branch that stays ready, and a TTL that
\* nobody updates passes.
RegistryFairness ==
  \A s \in Servers \ Stable :
    WF_registryVars(BeatEnds(s)) /\ WF_registryVars(s \notin beat /\ Expire(s))
=============================================================================
