\* A node of each kind; json_http, json_websocket, audio_rtp_av
\* and file_watcher may be started twice.
CONSTANTS
  Kinds = {"audio_rtp", "video_rtp", "video_file", "videostream_ffmpeg",
           "audio_rtp_av", "video_rtp_av", "audio_file", "csv_data_loader",
           "file_watcher", "image_loader", "json_http", "json_websocket",
           "notifier_udp", "notifier_http", "notifier_websocket", "warp"}
  Restarted = {"json_http", "json_websocket", "audio_rtp_av", "file_watcher"}
  MaxStarts = 2
  MaxProcs = 3
  BlockSize = 2
  MaxSamples = 3
  MaxConns = 2
  MaxEvents = 4
  QueueSize = 1
  MaxRequests = 2
  Exchange <- PlainExchange
  DataSize = 2
  MaxSequence = 2
  MaxChunks = 10
  MaxLength = 24
  MaxUpdates = 2
SPECIFICATION FairSpec
INVARIANTS TypeOK OneProcess LiveIsRead   WsOnce  RoundTrip
  
CHECK_DEADLOCK FALSE
