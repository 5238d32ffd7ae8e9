---------------------------- MODULE MCCgiService ----------------------------
(* Finite instances of CgiService for TLC.                                 *)
EXTENDS CgiService, TLC

CONSTANTS w1, w2, r1, r2

\* An offer as the worker that renders it sends it: a campaign that is not
\* retargeted, a social one, a retargeted one.
MCPlain  == [kind |-> "object", text |-> "string", number |-> "number",
             campaign_social |-> "false", retargeting |-> "false"]
MCSocial == [MCPlain EXCEPT !.campaign_social = "true"]
MCRetargeted == [MCPlain EXCEPT !.retargeting = "true"]
\* The offer lacks its campaign_social, or its retargeting is a string.
MCBroken   == [MCPlain EXCEPT !.campaign_social = "null"]
MCUncounted == [MCPlain EXCEPT !.retargeting = "string"]

\* A well-formed XHR with a batch of offers.
MCBatch(offers, test) ==
    [addr |-> TRUE, script |-> TRUE, xhr |-> TRUE, show |-> FALSE,
     cookie |-> "text", length |-> "fits", json |-> "object",
     items |-> "array", offers |-> offers, params |-> "object",
     informer_id_int |-> "number", text |-> "string", test |-> test]

MCGood == MCBatch(<<MCSocial, MCRetargeted>>, "true")
MCNoFlag == MCBatch(<<MCPlain>>, "null")
MCTornBatch == MCBatch(<<MCPlain, MCBroken>>, "false")
MCUncountedBatch == MCBatch(<<MCSocial, MCUncounted>>, "false")
MCBadCookie == [MCGood EXCEPT !.cookie = "invalid"]
MCNoAddress == [MCGood EXCEPT !.addr = FALSE]
MCNoInformer == [MCGood EXCEPT !.informer_id_int = "null"]
MCCut == [MCGood EXCEPT !.length = "exceeds"]
MCStatusPage == [MCGood EXCEPT !.xhr = FALSE, !.show = TRUE]
MCPlainGet == [MCGood EXCEPT !.xhr = FALSE]

MCWorkers == {w1, w2}
MCOneWorker == {w1}
MCRequests == {r1, r2}

MCInputsSafety == {MCGood, MCTornBatch, MCBadCookie, MCNoAddress}
MCInputsAll == {MCGood, MCNoFlag, MCTornBatch, MCUncountedBatch, MCBadCookie,
                MCNoAddress, MCNoInformer, MCCut, MCStatusPage, MCPlainGet}
MCInputsLive == {MCGood, MCTornBatch, MCNoAddress}

MCNoFaults == {}
MCAllFaults == Fault
MCAcceptFaults == {"accept", "init"}

MCSymmetry == Permutations(Workers) \cup Permutations(Requests)
=============================================================================
