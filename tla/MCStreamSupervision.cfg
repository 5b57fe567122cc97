\* One attempt per restart series, one ffmpeg that dies or does not start, one that outlives
\* SIGKILL, one MQTT reconnection, one camera event and the shutdown: any three of them, in any
\* order and overlapping.  Without a camera, all threads but the agent's own are gone.
SPECIFICATION FairSpec
CONSTANTS
  MaxAttempts = 1
  MaxDeaths = 1
  MaxStuck = 1
  MaxReconnects = 1
  MaxEvents = 1
  MaxTroubles = 3
INVARIANT TypeOK
PROPERTY StreamSettles
CHECK_DEADLOCK FALSE
