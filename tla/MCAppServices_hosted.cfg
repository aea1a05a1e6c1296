SPECIFICATION Spec
CONSTANTS
  Requests = {r1}
  Environments <- JustTheTemplate
PROPERTY TemplateStarts
