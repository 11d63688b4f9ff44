--------------------------- MODULE MCNodeServices ---------------------------
(***************************************************************************)
(* The services of the node that share no state with one another: account  *)
(* migration and takeover capture, device bridges, port forwarding, the    *)
(* takeover transfer, attachment gateways and skill exports.  A behaviour  *)
(* of the run is a behaviour of one of them; the others stay as they       *)
(* began, so that the run explores the sum of the services, not their      *)
(* product.                                                                *)
(***************************************************************************)
EXTENDS AccountMigration, DeviceBridge, PortForward, TakeoverTransfer, Attachments, SkillExport

VARIABLE service   \* which one runs

\* Two generations of one device and another device.
TwoDevices == {[dev |-> 1, gen |-> 1], [dev |-> 1, gen |-> 2], [dev |-> 2, gen |-> 1]}

servicesVars == <<service, vars, bvars, pvars, tvars, avars, xvars>>

ServicesInit ==
    /\ service \in {"migration", "bridge", "forward", "takeover", "attachment", "export"}
    /\ Init /\ BInit /\ PInit
    /\ TInit /\ AInit /\ XInit
    /\ service # "export" => \A t \in Trees : tree <= t

\* Bound: the account's files are written by an import or by a session, not by
\* both in one behaviour.
OneWriter == session = "none" \/ store.import = "none"

MigrationRuns ==
    /\ service = "migration" /\ Next /\ OneWriter'
    /\ UNCHANGED <<service, bvars, pvars, tvars, avars, xvars>>

BridgeRuns ==
    /\ service = "bridge" /\ BNext
    /\ UNCHANGED <<service, vars, pvars, tvars, avars, xvars>>

ForwardRuns ==
    /\ service = "forward" /\ PNext
    /\ UNCHANGED <<service, vars, bvars, tvars, avars, xvars>>

TakeoverRuns ==
    /\ service = "takeover" /\ TNext
    /\ UNCHANGED <<service, vars, bvars, pvars, avars, xvars>>

AttachmentRuns ==
    /\ service = "attachment" /\ ANext
    /\ UNCHANGED <<service, vars, bvars, pvars, tvars, xvars>>

ExportRuns ==
    /\ service = "export" /\ XNext
    /\ UNCHANGED <<service, vars, bvars, pvars, tvars, avars>>

ServicesNext ==
    \/ MigrationRuns \/ BridgeRuns \/ ForwardRuns
    \/ TakeoverRuns \/ AttachmentRuns \/ ExportRuns

ServicesSpec == ServicesInit /\ [][ServicesNext]_servicesVars
=============================================================================
