--------------------------- MODULE MCSuggestions ---------------------------
(* "Ann Lee" <ann@work> shares the local part of her address with "ann"    *)
(* <ann@home>, her full name with the noreply identity of the account al,   *)
(* and so a proof with that account; al may register either address.  In   *)
(* the second cast the third identity writes from ann@home instead.        *)
EXTENDS Suggestions

CONSTANTS i1, i2, i3, i4

MCIdents == {i1, i2, i3, i4}
MCNameOf == i1 :> "Ann Lee" @@ i2 :> "ann" @@ i3 :> "Ann Lee" @@ i4 :> None
MCEmailOf == i1 :> "ann@work" @@ i2 :> "ann@home" @@ i3 :> "al@noreply" @@ i4 :> None
MCEmailOfChain == i1 :> "ann@work" @@ i2 :> "ann@home" @@ i3 :> "ann@home" @@ i4 :> None
MCLoginOf == i1 :> None @@ i2 :> None @@ i3 :> None @@ i4 :> "al"
MCNames == {"Ann Lee", "ann", "al", "annlee"}
MCEmails == {"ann@work", "ann@home", "al@noreply"}
MCHandles == {"ann", "al", "annlee"}
MCSquash == "Ann Lee" :> "annlee" @@ "ann" :> "ann" @@ "al" :> "al" @@ "annlee" :> "annlee"
MCSimilarity == [x \in MCNames \X MCNames |-> IF x[1] = x[2] THEN 100 ELSE 60]
MCNoreplyLogin == "ann@work" :> None @@ "ann@home" :> None @@ "al@noreply" :> "al"
MCLocal == "ann@work" :> "ann" @@ "ann@home" :> "ann" @@ "al@noreply" :> None
MCInitially == <<i1, i2, i4>>
MCNewNames == {"Ann Lee"}
MCFull == {"Ann Lee"}
MCExcluded == {i2}
MCMemberLogins == {"al"}
=============================================================================
