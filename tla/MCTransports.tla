---------------------------- MODULE MCTransports ----------------------------
(* How people reach the agent and how it reaches them: the Telegram dialogue  *)
(* around the turns, the delivery of an answer, the way of an update into a   *)
(* turn, and the voice connection.  As in MCRuntime, a behaviour picks one    *)
(* component and runs it while the others rest.                               *)
EXTENDS TelegramDialog, TelegramDelivery, TelegramInbound, VoiceTurns

CONSTANT Parts     \* the components that are explored

VARIABLE part      \* the component that runs

\* Nothing, one piece, a break that fits and one that does not, no break where
\* one is needed, and a break at the very start.
MCTexts ==
    {<<>>, <<"c">>, <<"c", "n", "c">>, <<"c", "n", "n", "c">>, <<"c", "c", "c", "c", "n">>,
     <<"n", "c", "c", "c", "c", "c">>}

-----------------------------------------------------------------------------
DialogRests == DialogInit /\ tdMode = "instant"
DeliveryRests ==
    DeliveryInit /\ tgOp = [kind |-> "finalize", text |-> <<>>, rich |-> FALSE, preview |-> FALSE]
InboundRests == InboundInit /\ ibDesired = CHOOSE r \in BotRows : TRUE
VoiceRests == VoiceInit /\ vtMode = "barge"

TransportsInit ==
    /\ part \in Parts
    /\ IF part = "dialog" THEN DialogInit ELSE DialogRests
    /\ IF part = "delivery" THEN DeliveryInit ELSE DeliveryRests
    /\ IF part = "inbound" THEN InboundInit ELSE InboundRests
    /\ IF part = "voice" THEN VoiceInit ELSE VoiceRests

TransportsNext ==
    \/ /\ part = "dialog" /\ DialogNext
       /\ UNCHANGED <<part, deliveryVars, inboundVars, voiceVars>>
    \/ /\ part = "delivery" /\ DeliveryNext
       /\ UNCHANGED <<part, dialogVars, inboundVars, voiceVars>>
    \/ /\ part = "inbound" /\ InboundNext
       /\ UNCHANGED <<part, dialogVars, deliveryVars, voiceVars>>
    \/ /\ part = "voice" /\ VoiceNext
       /\ UNCHANGED <<part, dialogVars, deliveryVars, inboundVars>>

TransportsSpec ==
    TransportsInit /\ [][TransportsNext]_<<part, dialogVars, deliveryVars, inboundVars, voiceVars>>
=============================================================================
