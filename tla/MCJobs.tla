------------------------------- MODULE MCJobs -------------------------------
(***************************************************************************)
(* The jobs side of the queue, model-checked as one specification: a        *)
(* behaviour is a behaviour of one of the components, chosen at the start.  *)
(***************************************************************************)
EXTENDS CacheAdapters, Remember, RateLimiter, JobMiddleware, JobEnvelope, WorkflowCoordinator, WorkflowStart, Features

(***************************************************************************)
(* Constants: two releases of one workflow, with other handlers and fewer  *)
(* attempts or with other steps, and a second workflow.                    *)
(***************************************************************************)
Def(identity, shape, handlers, maxAttempts) ==
    [identity |-> identity, shape |-> shape, handlers |-> handlers, maxAttempts |-> maxAttempts]
MCBatches == {<<Def("w", "s", "h1", 2)>>, <<Def("w", "s", "h2", 1), Def("v", "s", "h1", 2)>>, <<Def("w", "t", "h1", 2)>>,
              <<Def("v", "s", "h1", 2), Def("v", "t", "h1", 2)>>}
Ask(identity, byValue, startKey, input) ==
    [identity |-> identity, byValue |-> byValue, startKey |-> startKey, input |-> input]
MCStartRequests == {Ask("w", {}, "k", "i1"), Ask("w", {}, "k", "i2"), Ask("w", {Def("w", "s", "h1", 2)}, "k", "i1"),
                    Ask("v", {}, "k", "i1"), Ask("w", {}, "", "i1")}
MCScopes == {[kind |-> "number", text |-> "1"], [kind |-> "object", text |-> "1"]}

VARIABLE component

callVars == <<adapterVars, rememberVars, limiterVars, middlewareVars, envelopeVars, coordinatorVars>>
deployVars == <<startVars, featureVars>>

Init ==
    /\ component \in {"adapters", "remember", "limiter", "middleware", "envelope", "coordinator", "start", "features"}
    /\ AdaptersInit /\ RememberInit /\ LimiterInit /\ MiddlewareInit /\ EnvelopeInit /\ CoordinatorInit
    /\ StartInit /\ FeaturesInit
    \* the components that are not explored start in one state
    /\ component # "remember" => driver = "memory"
    /\ component # "limiter" => atomicFixedWindow
    /\ component # "coordinator" => transport = "memory"
    /\ component # "start" => startStore = "memory"

Next ==
    \/ /\ component = "adapters" /\ AdaptersNext
       /\ UNCHANGED <<component, rememberVars, limiterVars, middlewareVars, envelopeVars, coordinatorVars, deployVars>>
    \/ /\ component = "remember" /\ RememberNext
       /\ UNCHANGED <<component, adapterVars, limiterVars, middlewareVars, envelopeVars, coordinatorVars, deployVars>>
    \/ /\ component = "limiter" /\ LimiterNext
       /\ UNCHANGED <<component, adapterVars, rememberVars, middlewareVars, envelopeVars, coordinatorVars, deployVars>>
    \/ /\ component = "middleware" /\ MiddlewareNext
       /\ UNCHANGED <<component, adapterVars, rememberVars, limiterVars, envelopeVars, coordinatorVars, deployVars>>
    \/ /\ component = "envelope" /\ EnvelopeNext
       /\ UNCHANGED <<component, adapterVars, rememberVars, limiterVars, middlewareVars, coordinatorVars, deployVars>>
    \/ /\ component = "coordinator" /\ CoordinatorNext
       /\ UNCHANGED <<component, adapterVars, rememberVars, limiterVars, middlewareVars, envelopeVars, deployVars>>
    \/ /\ component = "start" /\ StartNext
       /\ UNCHANGED <<component, callVars, featureVars>>
    \/ /\ component = "features" /\ FeaturesNext
       /\ UNCHANGED <<component, callVars, startVars>>

vars == <<component, callVars, deployVars>>
Spec == Init /\ [][Next]_vars

\* The type invariants of the components.
TypeOK ==
    /\ AdaptersTypeOK /\ RememberTypeOK /\ LimiterTypeOK
    /\ MiddlewareTypeOK /\ EnvelopeTypeOK /\ CoordinatorTypeOK
    /\ StartTypeOK /\ FeaturesTypeOK
=============================================================================
