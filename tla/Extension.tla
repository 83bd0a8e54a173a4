----------------------------- MODULE Extension -----------------------------
(***************************************************************************)
(* The extension library: Inference Engine asks it for the layer types of  *)
(* a network it does not know, configures the layer and runs it            *)
(* (ext_list.hpp, ext_base.cpp).  One layer of a network at a time; the    *)
(* layers are modelled by DetectionOutput, RegionProposal, GridLayers and  *)
(* AnswerLayers.                                                           *)
(***************************************************************************)
EXTENDS DetectionOutput, RegionProposal, GridLayers, AnswerLayers

VARIABLE layer   \* type, state and data layout of the layer

vars == <<layer, detectionVars, proposalVars, gridVars, answerVars>>

layersIdle == UNCHANGED <<detectionVars, proposalVars, gridVars, answerVars>>

\* The keys of ExtensionsHolder::list, one for each REG_FACTORY_FOR.
Registered ==
  {"ArgMax", "CTCGreedyDecoder", "DetectionOutput", "GRN", "Interp", "MVN",
   "Normalize", "PowerFile", "PReLU", "PriorBox", "PriorBoxClustered", "Proposal",
   "PSROIPooling", "RegionYolo", "ReorgYolo", "Resample", "SimplerNMS",
   "SpatialTransformer"}

(* The axes of a tensor in the order in which they are stored.  A blocked  *)
(* layout (nChw8c) stores the channels once more, innermost.               *)
Plain   == <<0, 1, 2, 3>>
Blocked == <<0, 1, 2, 3, 1>>

Init ==
  /\ layer = [type |-> "none", state |-> "none", order |-> Plain]
  /\ DetectionInit /\ ProposalInit /\ GridInit /\ AnswerInit

(* getFactoryFor, NOT_FOUND for a type that is not registered.             *)
GetFactoryFor(type) ==
  /\ layer.state = "none"
  /\ layer' = [layer EXCEPT !.type = type,
                            !.state = IF type \in Registered THEN "found" ELSE "unknown"]
  /\ layersIdle

BlockedTypes == {"Interp", "PReLU"}

(* getImplementations: the constructor reads the parameters.  What it      *)
(* throws (edges, parameters) becomes errorMsg.  PReLU has a plain layout  *)
(* unless its input has four dimensions.                                   *)
Construct ==
  /\ layer.state = "found"
  /\ \/ layer' = [layer EXCEPT !.state = "faulty"]
     \/ layer' = [layer EXCEPT !.state = "constructed"]
     \/ /\ layer.type \in BlockedTypes
        /\ layer' = [layer EXCEPT !.state = "constructed", !.order = Blocked]
  /\ layer'.order = Plain => layer.type # "Interp" \/ layer'.state = "faulty"
  /\ layersIdle

(* getSupportedConfigurations, GENERAL_ERROR if there is an errorMsg.      *)
GetSupportedConfigurations ==
  /\ layer.state \in {"faulty", "constructed"}
  /\ layer' = [layer EXCEPT !.state = IF layer.state = "faulty" THEN "refused" ELSE "configured"]
  /\ layersIdle

(* init of the configuration that was offered.                             *)
InitLayer ==
  /\ layer.state = "configured"
  /\ layer' = [layer EXCEPT !.state =
                 IF \A i \in DOMAIN layer.order : layer.order[i] = i - 1
                 THEN "ready" ELSE "refused"]
  /\ layersIdle

(* execute.                                                                *)
ExecuteDetection ==
  /\ layer.type = "DetectionOutput" /\ DetectionNext
  /\ UNCHANGED <<proposalVars, gridVars, answerVars>>

ExecuteProposal ==
  /\ layer.type = proposer /\ ProposalNext
  /\ UNCHANGED <<detectionVars, gridVars, answerVars>>

ExecuteGrid ==
  /\ GridLayer(layer.type)
  /\ UNCHANGED <<detectionVars, proposalVars, answerVars>>

ExecuteAnswer ==
  /\ AnswerLayer(layer.type)
  /\ UNCHANGED <<detectionVars, proposalVars, gridVars>>

Execute ==
  /\ layer.state = "ready"
  /\ ExecuteDetection \/ ExecuteProposal \/ ExecuteGrid \/ ExecuteAnswer
  /\ UNCHANGED layer

Next ==
  \/ \E type \in Registered \cup {"unknown"} : GetFactoryFor(type)
  \/ Construct
  \/ GetSupportedConfigurations
  \/ InitLayer
  \/ Execute

Spec == Init /\ [][Next]_vars
=============================================================================
