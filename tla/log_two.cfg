SPECIFICATION Spec
CONSTANTS
  Tasks = {"main", "usb"}
  Priority <- MCPriority
  Reader = "usb"
  LoggerChoices = {{"main", "usb"}}
  SIZE = 3
  Letters = {a, b}
  MaxText = 3
  Kept = 2
  Other = Other
  Limits = {1, 2}
PROPERTIES
  DropsOnlyExtra
