\* A client that started the service in the background.
CONSTANTS
  Clients = {desk}
  Others = {editor}
  Ui = Ui
  MaxPids = 1
  None = None
SPECIFICATION Spec
PROPERTIES BackgroundOutlivesClient
