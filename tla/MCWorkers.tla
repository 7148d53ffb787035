----------------------------- MODULE MCWorkers -----------------------------
(***************************************************************************)
(* What daemons and planners do for the server, under fairness: the probe  *)
(* pipeline of a connector, one invocation of a CLI, the suggestions of a  *)
(* planning run and its choice of a provider, one per behaviour: Init      *)
(* chooses the part that runs.  Nothing of a part is ever enabled in the   *)
(* others, so its fairness asks nothing of them.                           *)
(***************************************************************************)
EXTENDS ConnectorLink, CliExecution, SuggestionRanking, ProviderSelection

VARIABLE part

linkRest == <<part, cliVars, rankingVars, selectionVars>>
cliRest == <<part, linkVars, rankingVars, selectionVars>>
rankingRest == <<part, linkVars, cliVars, selectionVars>>
selectionRest == <<part, linkVars, cliVars, rankingVars>>

\* A part that does not run starts in one state.
WorkersInit ==
  /\ part \in {"link", "cli", "ranking", "selection"}
  /\ Init /\ CliInit /\ RankingInit /\ SelectionInit
  /\ part # "ranking" =>
       /\ situation = Quiet("deterministic", CHOOSE q \in RankedRequirements : TRUE)
       /\ drafts = CHOOSE d \in Generated(situation) : TRUE

WorkersNext ==
  \/ part = "link" /\ Next /\ UNCHANGED linkRest
  \/ part = "cli" /\ CliNext /\ UNCHANGED cliRest
  \/ part = "ranking" /\ RankingNext /\ UNCHANGED rankingRest
  \/ part = "selection" /\ SelectionNext /\ UNCHANGED selectionRest

workersVars == <<linkRest, linkVars>>

WorkersSpec == WorkersInit /\ [][WorkersNext]_workersVars /\ Fairness /\ CliFairness

\* Three of the ten urgent words: the urgency of the validation reaches its top in
\* some situations and not in others.
OneRequirement ==
  {[lines |-> 1, keywords |-> 3, title |-> PerKind(3, 2, 1)]}

NoneOrOneModel == {<<>>, <<"m1">>}
=============================================================================
