---------------------------- MODULE MCFSMService ----------------------------
(* Instances of FSMService for TLC. *)
EXTENDS FSMService, StateConfiguration

-----------------------------------------------------------------------------
(* The configuration of PhoneService, the example service of the tests.     *)

PhoneStates == {"OffHook", "Ringing", "Connected", "OnHold"}
PhoneTriggers == {"CallDialed", "CallConnected", "PlacedOnHold", "LeftMessage",
                  "HungUp"}

PhoneConfig ==
    [OffHook |-> configure("OffHook",
        <<permit("CallDialed", "Ringing"), onExit("work"), onExit("complete")>>),
     Ringing |-> configure("Ringing",
        <<onEntry("work"), onExit("work"),
          permit("HungUp", "OffHook"), permit("CallConnected", "Connected")>>),
     Connected |-> configure("Connected",
        <<onEntry("work"), onEntryFrom("CallConnected", "complete"),
          onExit("work"), onExit("complete"), onExpiry("HungUp"),
          permit("LeftMessage", "OffHook"), permit("HungUp", "OffHook"),
          permit("PlacedOnHold", "OnHold")>>),
     OnHold |-> configure("OnHold",
        <<onEntry("work"), onExpiry("HungUp"),
          permit("HungUp", "OffHook"), permit("LeftMessage", "OffHook")>>)]

PhonePosts == {None, "Connected"}
PhoneAccepted == PhoneStates \cup {None}
PhonePatches ==
    {None} \X {"CallDialed", "CallConnected", "PlacedOnHold", "HungUp"}
    \cup {<<"Ringing", "HungUp">>, <<None, None>>}

-----------------------------------------------------------------------------
(* The example of the README, with what may go wrong added: ResultOfA is    *)
(* never configured, Trigger_ValidB has two guarded behaviours that overlap,*)
(* NextState is re-entered, and its actions may throw.                      *)

SampleStates == {"InitialState", "NextState", "ResultOfA", "ResultOfB"}
SampleTriggers == {"Validated", "Trigger_ValidB", "TriggerA", "TriggerB", "Again"}
SampleGuards == {"valid", "alsoValid"}

SampleConfig ==
    [InitialState |-> configure("InitialState",
        <<permit("Validated", "NextState"),
          permitIf("Trigger_ValidB", "ResultOfB", "valid"),
          permitIf("Trigger_ValidB", "NextState", "alsoValid"),
          onExit("work"), onExit("complete")>>),
     NextState |-> configure("NextState",
        <<permit("TriggerA", "ResultOfA"), permit("TriggerB", "ResultOfB"),
          permitReentryIf("Again", "valid"),
          onEntry("risky"), onExit("risky"), onExit("complete"), onExit("risky")>>),
     ResultOfB |-> configure("ResultOfB",
        <<onEntryFrom("TriggerB", "risky"), onExpiry("Again"),
          permitReentry("Again"), permit("TriggerA", "ResultOfA")>>)]

SamplePosts == {None, "ResultOfB"}
SampleAccepted == {None, "InitialState", "ResultOfB"}
SamplePatches ==
    {None} \X {"Validated", "Trigger_ValidB", "TriggerA", "TriggerB"}
    \cup {<<"NextState", "Again">>}

-----------------------------------------------------------------------------
(* A task that waits: every patch is completed by the last entry action.    *)
(* Stopping takes the same trigger as Waiting, and expires by it too: a     *)
(* timer of Waiting that runs out late would end it, if it could.           *)

TaskStates == {"Start", "Waiting", "Stopping", "Expired"}
TaskTriggers == {"Go", "Timeout", "Retry", "Stop"}

TaskConfig ==
    [Start |-> configure("Start", <<permit("Go", "Waiting")>>),
     Waiting |-> configure("Waiting",
        <<permit("Timeout", "Expired"), permit("Stop", "Stopping"),
          permitReentry("Retry"),
          onEntry("work"), onEntry("complete"), onExit("work"), onExpiry("Timeout")>>),
     Stopping |-> configure("Stopping",
        <<permit("Timeout", "Expired"), onEntry("complete"), onExpiry("Timeout")>>),
     Expired |-> configure("Expired",
        <<permit("Retry", "Waiting"), onEntry("work"), onEntry("complete")>>)]

TaskPosts == {None}
TaskAccepted == TaskStates \cup {None}
TaskPatches == {<<None, "Retry">>, <<None, "Stop">>, <<"Waiting", "Stop">>}

NoGuards == {}
=============================================================================
