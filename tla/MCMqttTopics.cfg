SPECIFICATION Spec
CONSTANTS
  Letters <- MCLetters
  Slash = 0
  MQTT_ROOT_TOPIC <- MCRoot
  PAUSE <- MCPause
  RESET <- MCReset
  STATUS <- MCStatus
  MaxLetters = 5
  MaxParts = 2
PROPERTIES ControlActs StatusIsHarmless
