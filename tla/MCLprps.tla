------------------------------ MODULE MCLprps -------------------------------
EXTENDS Lprps, TLC

MCChars == {"%", "[", "]", "idle", "busy", "wait", "p0", "p1", "p2", "p3", "p4", "Error", "Flushing"}
MCTexts == {<<"%">>, Msg("p2"), <<EOF>> \o Msg("p2") \o <<EOF>>}
MCStatusOf == "idle" :> "IDLE" @@ "busy" :> "BUSY" @@ "wait" :> "WAITING"
MCPageNo == "p0" :> 0 @@ "p1" :> 1 @@ "p2" :> 2 @@ "p3" :> 3 @@ "p4" :> 4
=============================================================================
