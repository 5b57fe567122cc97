\* Up to three messages and a queue of two, or one or two commands with ids of which one is
\* remembered, or a restart or a reboot of the process.
SPECIFICATION FairSpec
CONSTANTS
    a1 = a1
    a2 = a2
    b = b
    answer = answer
    wifi = wifi
    other = other
    foreign = foreign
    reconnect = reconnect
    restart = restart
    reboot = reboot
    Msg = {a1, a2, b, answer}
    Topic <- MCTopic
    Publisher = {"p"}
    Command = {wifi, other, foreign, reconnect, restart, reboot}
    Kind <- MCKind
    Answer <- MCAnswer
    Foreign <- MCForeign
    StrictDeviceUuid = TRUE
    Cap = 2
    Window = 1
    Kept = 1
    Start <- Starts
INVARIANTS MqttTypeOK HandledOnce HandlerNeverWaits
PROPERTIES KeepsMessages QueueDrains OnlineSettles Reconnects
