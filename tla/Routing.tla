------------------------------ MODULE Routing ------------------------------
(***************************************************************************)
(* Which source generates the next item, and which one races it: the pure  *)
(* functions of queue/timing.py over what the manager has read about the   *)
(* sources.  A result is a set of at most one source; the empty set is     *)
(* filler_pool, or no partner.                                             *)
(*                                                                         *)
(* Abstracted: a balance is "some" (above 0), "zero" or "unknown"; an      *)
(* average latency is a number, 0 where nothing was measured.              *)
(***************************************************************************)
EXTENDS Naturals

Locals    == {"windows", "mac"}
Providers == {"elevenlabs", "gemini_lyra"}
Sources   == Locals \union Providers
Modes     == {"local_only", "hybrid", "paid_only"}
Balances  == {"unknown", "zero", "some"}

\* wh[w] is [ok, busy, latency], ph[p] is [ok, quota]: the health dictionaries.
\* The order of LOCAL_WORKERS decides between equals.
Earlier(v, w) == v = "windows" /\ w = "mac"

Healthy(wh) == {w \in Locals : wh[w].ok}
Idle(wh)    == {w \in Healthy(wh) : ~wh[w].busy}

\* An idle worker that was never measured comes last, a busy one first: its
\* estimated_free_in_sec is 0.
Slower(v, w, wh) == wh[w].latency # 0 /\ (wh[v].latency = 0 \/ wh[v].latency > wh[w].latency)
Fastest(S, wh) ==
  {w \in S : \A v \in S \ {w} : Slower(v, w, wh) \/ (Earlier(w, v) /\ ~Slower(w, v, wh))}
SoonestFree(S, wh) ==
  {w \in S : \A v \in S \ {w} : \/ wh[w].latency < wh[v].latency
                                \/ Earlier(w, v) /\ wh[w].latency = wh[v].latency}

\* An unknown balance counts as exhausted; gemini_lyra needs none.
OnHeartbeatAlone(ph) ==                                                  \* (a variant)
  IF ph["elevenlabs"].ok THEN {"elevenlabs"} ELSE {p \in {"gemini_lyra"} : ph[p].ok}
PickAvailableProvider(ph) ==
  IF ph["elevenlabs"].ok /\ ph["elevenlabs"].quota = "some" THEN {"elevenlabs"}
  ELSE {p \in {"gemini_lyra"} : ph[p].ok}

ProviderFirst(mode, wh, ph) ==                                           \* (a variant)
  IF mode = "paid_only" \/ (mode = "hybrid" /\ PickAvailableProvider(ph) # {})
    THEN PickAvailableProvider(ph)
  ELSE IF Idle(wh) # {} THEN Fastest(Idle(wh), wh)
  ELSE SoonestFree(Healthy(wh), wh)
ChooseSource(mode, wh, ph) ==
  IF mode = "paid_only" THEN PickAvailableProvider(ph)
  ELSE IF Idle(wh) # {} THEN Fastest(Idle(wh), wh)
  ELSE IF mode = "hybrid" /\ PickAvailableProvider(ph) # {} THEN PickAvailableProvider(ph)
  ELSE SoonestFree(Healthy(wh), wh)

\* In paid_only the other provider needs a heartbeat only.
PickHedgePartner(mode, primary, wh, ph) ==
  IF mode = "local_only" THEN Healthy(wh) \ {primary}
  ELSE IF mode = "paid_only" THEN {p \in Providers \ {primary} : ph[p].ok}
  ELSE IF primary \in Locals THEN PickAvailableProvider(ph) ELSE {}

=============================================================================
