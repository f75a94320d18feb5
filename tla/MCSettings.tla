----------------------------- MODULE MCSettings -----------------------------
(* Three files and three environments; the collector varies two policies   *)
(* and sends four keys, of which high security protects two.               *)
EXTENDS Settings, TLC

Says(f) == [s \in Setting |-> IF s \in DOMAIN f THEN f[s] ELSE Unset]

MCFile == {Says(<<>>), Says("record_sql" :> 2 @@ "include" :> 1),
           Says("record_sql" :> 0 @@ "slow_sql" :> 1 @@ "ai_monitoring" :> 1
                @@ "destination_include" :> 1)}
MCEnvironment == {Says(<<>>), Says("record_sql" :> 1 @@ "slow_sql" :> 1),
                  Says("include_enabled" :> 0 @@ "include" :> 1)}
=============================================================================
